---- MODULE Spec2Model ----
(***************************************************************************)
(* Model of the idaia FreeCAD add-on: the guarded executor                 *)
(* (addon/idaia/core/executor.py), the Ollama client                       *)
(* (addon/idaia/core/llm_client.py) and the AI agent with its retry loop   *)
(* and asynchronous manager (idaiavibedesign/AIAgent.py).                  *)
(*                                                                         *)
(* Text is a sequence of atoms.  An atom is a short literal piece of text: *)
(*   "x=1"        the statement x=1            (3 characters)              *)
(*   "import os"  the words import os          (9 characters)              *)
(*   " "          one space                                                *)
(*   "PAD"        a run of MAX_CODE_LEN spaces                             *)
(*   "LF" "CR"    the line breaks \n and \r                                *)
(*   "BT"         one backtick                                             *)
(*   "{" "}" "#"  these characters                                         *)
(*   "BOM"        the byte-order mark U+FEFF                               *)
(*   "python" "json"   fence language tags                                 *)
(*   "OBJ"        the JSON text {"code":"x=1"}  (14 characters)            *)
(*   "FENCE"      three backticks, used only in chat content               *)
(***************************************************************************)
EXTENDS Integers, Sequences, FiniteSets, TLC

\* ---------------------------------------------------------------- bounds
\* longest code string handed to the executor / normalizers, in atoms
MaxLen == 3
\* longest assistant content handed to ask_llm, in atoms
MaxContentLen == 6
\* largest configured max_retries
MaxRetries == 3
\* number of worker threads one run may start
MaxWorkers == 2
\* number of process_async calls one run may have rejected
MaxRejected == 1

\* process_prompt calls made on one agent
MaxPrompts == 7

\* pieces of text after the compound of a prompt
MaxEnding == 2

\* commands of one AI response
MaxCommands == 2

\* create_variable and add_constraint calls on one manager
MaxSheetCalls == 3
MaxField == 2
MaxManagers == 2
MaxRow == 7

\* ------------------------------------------------------ program constants
MAX_CODE_LEN == 5000

\* ------------------------------------------------------------------ text
CodeAlphabet ==
  {"x=1", "import os", "eval(1)", " ", "PAD", "LF", "CR", "BT", "{", "}", "#", "BOM"}

ContentAlphabet == {"FENCE", "json", "LF", "OBJ", "x=1"}

Strings(A, n) == UNION {[1..k -> A] : k \in 0..n}

\* number of characters of an atom
Width(a) ==
  CASE a = "x=1" -> 3
    [] a = "import os" -> 9
    [] a = "eval(1)" -> 7
    [] a = "PAD" -> MAX_CODE_LEN
    [] a = "python" -> 6
    [] a = "json" -> 4
    [] a = "OBJ" -> 14
    [] a = "FENCE" -> 3
    [] OTHER -> 1

\* len(s)
RECURSIVE StrLen(_)
StrLen(s) == IF s = <<>> THEN 0 ELSE Width(Head(s)) + StrLen(Tail(s))

\* the characters str.strip() removes (Python whitespace)
PyWhitespace == {" ", "PAD", "LF", "CR"}

\* the characters of the argument of strip("<backtick> \n\r\t")
StripChars == {"BT", "FENCE", " ", "PAD", "LF", "CR"}

LineBreaks == {"LF", "CR"}

Last(s) == s[Len(s)]

Front(s) == SubSeq(s, 1, Len(s) - 1)

\* s.lstrip(chars)
RECURSIVE LStrip(_, _)
LStrip(s, chars) ==
  IF s # <<>> /\ Head(s) \in chars THEN LStrip(Tail(s), chars) ELSE s

\* s.rstrip(chars)
RECURSIVE RStrip(_, _)
RStrip(s, chars) ==
  IF s # <<>> /\ Last(s) \in chars THEN RStrip(Front(s), chars) ELSE s

\* s.strip(chars)
Strip(s, chars) == RStrip(LStrip(s, chars), chars)

\* s.replace(a, "")
RECURSIVE RemoveAll(_, _)
RemoveAll(s, a) ==
  IF s = <<>> THEN <<>>
  ELSE IF Head(s) = a THEN RemoveAll(Tail(s), a)
  ELSE <<Head(s)>> \o RemoveAll(Tail(s), a)

\* index of the first atom of s that is in set, 0 when there is none
FirstIn(s, set) ==
  IF \E i \in 1..Len(s) : s[i] \in set
  THEN CHOOSE i \in 1..Len(s) : s[i] \in set /\ \A j \in 1..(i - 1) : s[j] \notin set
  ELSE 0

\* s.splitlines(): \r\n is one break, no empty last line after a final break
RECURSIVE SplitLines(_)
SplitLines(s) ==
  IF s = <<>> THEN <<>>
  ELSE LET i == FirstIn(s, LineBreaks) IN
    IF i = 0 THEN <<s>>
    ELSE LET j == IF s[i] = "CR" /\ i < Len(s) /\ s[i + 1] = "LF" THEN i + 1 ELSE i
         IN <<SubSeq(s, 1, i - 1)>> \o SplitLines(SubSeq(s, j + 1, Len(s)))

\* s.split(sep) for a one-atom separator: always at least one part
RECURSIVE SplitOn(_, _)
SplitOn(s, sep) ==
  LET i == FirstIn(s, {sep}) IN
    IF i = 0 THEN <<s>>
    ELSE <<SubSeq(s, 1, i - 1)>> \o SplitOn(SubSeq(s, i + 1, Len(s)), sep)

\* "\n".join(lines)
RECURSIVE JoinLines(_)
JoinLines(lines) ==
  IF lines = <<>> THEN <<>>
  ELSE IF Len(lines) = 1 THEN lines[1]
  ELSE lines[1] \o <<"LF">> \o JoinLines(Tail(lines))

FenceText == <<"BT", "BT", "BT">>

\* t.startswith(three backticks)
StartsWithFence(t) == Len(t) >= 3 /\ SubSeq(t, 1, 3) = FenceText

\* "{" in u
HasOpenBrace(u) == \E i \in 1..Len(u) : u[i] \in {"{", "OBJ"}

\* the last character of the atom is a word character (\w)
EndsInWordChar(a) == a \in {"x=1", "import os", "python", "json"}

\* the text of a fenced payload c: fence, python, \n, c, \n, fence
Fenced(c) == FenceText \o <<"python", "LF">> \o c \o <<"LF">> \o FenceText

\* ----------------------------------------------- addon/idaia/core/executor.py
\* BANNED_PATTERNS, in list order
BANNED_PATTERNS ==
  << "\\bimport\\b", "\\bfrom\\s+\\w+\\s+import\\b", "__\\w+__", "\\beval\\s*\\(",
     "\\bexec\\s*\\(", "\\bopen\\s*\\(", "\\bos\\.", "\\bsys\\.", "\\bsubprocess\\b",
     "\\bsocket\\b", "\\brequests?\\b", "\\burllib\\b", "\\bhttpx\\b", "\\bctypes\\b",
     "\\bpathlib\\b", "\\bshutil\\b", "\\bthreading\\b", "\\basyncio\\b" >>

\* mutant: re.match in place of re.search, the pattern must match at the start
RxSearch_match_at_start(k, s) ==
  /\ s # <<>>
  /\ \/ k = 1 /\ s[1] = "import os"
     \/ k = 4 /\ s[1] = "eval(1)"

\* rx.search(s) for the k-th banned pattern.  Over the atoms of this model only
\* the first pattern (the word import) and the fourth (eval followed by an
\* opening parenthesis) can match, and both need a word boundary in front of
\* the word: the start of the text or a character that is not a word character
\* (inside the atoms a space follows import and a parenthesis follows eval).
\* No atom holds an underscore, a dot or another banned word.
RxSearch(k, s) ==
  \E i \in 1..Len(s) :
    /\ \/ k = 1 /\ s[i] = "import os"
       \/ k = 4 /\ s[i] = "eval(1)"
    /\ (i = 1 \/ ~EndsInWordChar(s[i - 1]))

\* mutant: the first line, the opening fence, is not removed
strip_fences_keeps_first_line(s) ==
  LET t == Strip(s, PyWhitespace) IN
    IF StartsWithFence(t)
    THEN LET lines == SplitLines(t)
             kept == IF lines # <<>> /\ Strip(Last(lines), PyWhitespace) = FenceText
                     THEN Front(lines) ELSE lines
         IN Strip(JoinLines(kept), PyWhitespace)
    ELSE t

\* _strip_fences
strip_fences(s) ==
  LET t == Strip(s, PyWhitespace) IN
    IF StartsWithFence(t)
    THEN LET lines == Tail(SplitLines(t))
             kept == IF lines # <<>> /\ Strip(Last(lines), PyWhitespace) = FenceText
                     THEN Front(lines) ELSE lines
         IN Strip(JoinLines(kept), PyWhitespace)
    ELSE t

\* mutant: an if in place of the while, one brace removed at most
TrimLoop_once(u) ==
  IF u # <<>> /\ Last(u) = "}" THEN RStrip(Front(u), PyWhitespace) ELSE u

\* the while loop of _trim_trailing_unmatched_braces
RECURSIVE TrimLoop(_)
TrimLoop(u) ==
  IF u # <<>> /\ Last(u) = "}" THEN TrimLoop(RStrip(Front(u), PyWhitespace)) ELSE u

\* _trim_trailing_unmatched_braces
trim_trailing_unmatched_braces(t) ==
  LET u == RStrip(t, PyWhitespace) IN
    IF ~HasOpenBrace(u) THEN TrimLoop(u) ELSE u

\* _normalize
normalize(code_str) ==
  LET s1 == strip_fences(code_str)
      s2 == Strip(RemoveAll(s1, "BOM"), StripChars)
      s3 == trim_trailing_unmatched_braces(s2)
  IN Strip(s3, PyWhitespace)

\* mutant: the last matching pattern of the list is the one reported
FirstBanned_last_match(s) ==
  IF \E k \in 1..Len(BANNED_PATTERNS) : RxSearch(k, s)
  THEN CHOOSE k \in 1..Len(BANNED_PATTERNS) :
         RxSearch(k, s) /\ \A j \in (k + 1)..Len(BANNED_PATTERNS) : ~RxSearch(j, s)
  ELSE 0

\* the first banned pattern, in list order, that matches s; 0 when none does
FirstBanned(s) ==
  IF \E k \in 1..Len(BANNED_PATTERNS) : RxSearch(k, s)
  THEN CHOOSE k \in 1..Len(BANNED_PATTERNS) :
         RxSearch(k, s) /\ \A j \in 1..(k - 1) : ~RxSearch(j, s)
  ELSE 0

\* mutant: the length check left out
assert_safe_without_length_check(code_str) ==
  IF Strip(code_str, PyWhitespace) = <<>>
  THEN [error |-> "empty", rule |-> 0]
  ELSE IF FirstBanned(code_str) # 0
  THEN [error |-> "blocked", rule |-> FirstBanned(code_str)]
  ELSE [error |-> "ok", rule |-> 0]

\* _assert_safe: the ValueError it raises, or "ok"
assert_safe(code_str) ==
  IF Strip(code_str, PyWhitespace) = <<>>
  THEN [error |-> "empty", rule |-> 0]
  ELSE IF StrLen(code_str) > MAX_CODE_LEN
  THEN [error |-> "too_long", rule |-> 0]
  ELSE IF FirstBanned(code_str) # 0
  THEN [error |-> "blocked", rule |-> FirstBanned(code_str)]
  ELSE [error |-> "ok", rule |-> 0]

\* One step of Python's tokenizer and grammar over the atoms of CodeAlphabet.
\* m is the position in the logical line: "bol" at its first column, "ind"
\* after leading blanks, "end" after a complete simple statement, "com" in a
\* comment, "open"/"close" inside a brace display with k braces to close
\* (k opened so far / k still to close), "ocom"/"ccom" in a comment there.
\* The only statements of the alphabet are x=1, import os, eval(1) and the
\* displays {}, {{}}, {eval(1)}, ... whose braces may be spread over lines;
\* eval(1) is the one atom that is an expression, so the one element a display
\* can hold.
SyntaxStep(st, a) ==
  LET blank == a \in {" ", "PAD"}
      brk == a \in LineBreaks
      err == [m |-> "err", k |-> 0]
  IN CASE st.m = "err" -> err
       [] st.m = "com" -> IF brk THEN [m |-> "bol", k |-> 0] ELSE st
       [] st.m \in {"ocom", "ccom"} ->
            IF brk THEN [m |-> IF st.m = "ocom" THEN "open" ELSE "close", k |-> st.k]
            ELSE st
       [] st.m = "bol" ->
            IF blank THEN [m |-> "ind", k |-> 0]
            ELSE IF brk THEN st
            ELSE IF a = "#" THEN [m |-> "com", k |-> 0]
            ELSE IF a \in {"x=1", "import os", "eval(1)"} THEN [m |-> "end", k |-> 0]
            ELSE IF a = "{" THEN [m |-> "open", k |-> 1]
            ELSE err
       [] st.m = "ind" ->
            IF blank THEN st
            ELSE IF brk THEN [m |-> "bol", k |-> 0]
            ELSE IF a = "#" THEN [m |-> "com", k |-> 0]
            ELSE err
       [] st.m = "end" ->
            IF blank THEN st
            ELSE IF brk THEN [m |-> "bol", k |-> 0]
            ELSE IF a = "#" THEN [m |-> "com", k |-> 0]
            ELSE err
       [] st.m = "open" ->
            IF blank \/ brk THEN st
            ELSE IF a = "#" THEN [m |-> "ocom", k |-> st.k]
            ELSE IF a = "{" THEN [m |-> "open", k |-> st.k + 1]
            ELSE IF a = "eval(1)" THEN [m |-> "close", k |-> st.k]
            ELSE IF a = "}" THEN
              (IF st.k = 1 THEN [m |-> "end", k |-> 0] ELSE [m |-> "close", k |-> st.k - 1])
            ELSE err
       [] st.m = "close" ->
            IF blank \/ brk THEN st
            ELSE IF a = "#" THEN [m |-> "ccom", k |-> st.k]
            ELSE IF a = "}" THEN
              (IF st.k = 1 THEN [m |-> "end", k |-> 0] ELSE [m |-> "close", k |-> st.k - 1])
            ELSE err

RECURSIVE SyntaxRun(_, _)
SyntaxRun(st, s) ==
  IF s = <<>> THEN st ELSE SyntaxRun(SyntaxStep(st, Head(s)), Tail(s))

\* ast.parse(s, mode="exec") raises no SyntaxError
SyntaxOK(s) == SyntaxRun([m |-> "bol", k |-> 0], s).m \in {"bol", "ind", "end", "com"}

\* safe_run: the normalized snippet, the error raised ("none" when exec ran)
\* and whether exec was reached
safe_run(code_str) ==
  LET s == normalize(code_str)
      chk == assert_safe(s)
  IN IF chk.error # "ok"
     THEN [s |-> s, error |-> chk.error, rule |-> chk.rule, executed |-> FALSE]
     ELSE IF ~SyntaxOK(s)
     THEN [s |-> s, error |-> "syntax", rule |-> 0, executed |-> FALSE]
     ELSE [s |-> s, error |-> "none", rule |-> 0, executed |-> TRUE]

\* --------------------------------------------- addon/idaia/core/llm_client.py
\* _strip_fences (the client's copy)
client_strip_fences(s) ==
  LET t == Strip(s, PyWhitespace) IN
    IF StartsWithFence(t)
    THEN LET lines == Tail(SplitLines(t))
             kept == IF lines # <<>> /\ Strip(Last(lines), PyWhitespace) = FenceText
                     THEN Front(lines) ELSE lines
         IN Strip(JoinLines(kept), PyWhitespace)
    ELSE t

\* the while loop of the client's _trim_trailing_unmatched_braces
RECURSIVE ClientTrimLoop(_)
ClientTrimLoop(u) ==
  IF u # <<>> /\ Last(u) = "}" THEN ClientTrimLoop(RStrip(Front(u), PyWhitespace)) ELSE u

\* _trim_trailing_unmatched_braces (the client's copy)
client_trim_trailing_unmatched_braces(t) ==
  LET u == RStrip(t, PyWhitespace) IN
    IF ~HasOpenBrace(u) THEN ClientTrimLoop(u) ELSE u

\* re.match(r"^\s*(import\b|from\b.+\bimport\b)", line): over the atoms of this
\* model, a line whose first atom after leading blanks is import os
IsImportLine(line) ==
  LET l == LStrip(line, {" ", "PAD"}) IN l # <<>> /\ Head(l) = "import os"

\* _normalize_code
normalize_code(code) ==
  LET keep(line) == ~IsImportLine(line)
      t1 == client_strip_fences(code)
      t2 == Strip(RemoveAll(t1, "BOM"), StripChars)
      t3 == JoinLines(SelectSeq(SplitLines(t2), keep))
      t4 == client_trim_trailing_unmatched_braces(t3)
  IN Strip(t4, PyWhitespace)

\* pieces of message.content that are JSON documents: the object
\* {"code":"x=1"} (OBJ), the array [1] (ARR), the objects {} (OBJ_NO_CODE),
\* {"code":1} (OBJ_CODE_INT) and {"code":""} (OBJ_CODE_EMPTY)
JsonAlphabet == {"OBJ", "ARR", "OBJ_NO_CODE", "OBJ_CODE_INT", "OBJ_CODE_EMPTY", " ", "BT"}

JsonDocuments == {"OBJ", "ARR", "OBJ_NO_CODE", "OBJ_CODE_INT", "OBJ_CODE_EMPTY"}

\* json.loads(s): a JSON document is one document piece with JSON whitespace
\* allowed around it.  is_object: the value is a dict; code: the text of its
\* code field when that is a non-empty str, else the empty text.
json_loads(s) ==
  LET d == Strip(s, PyWhitespace) IN
    IF Len(d) = 1 /\ d[1] \in JsonDocuments
    THEN [ok |-> TRUE, is_object |-> d[1] # "ARR",
          code |-> IF d[1] = "OBJ" THEN <<"x=1">> ELSE <<>>]
    ELSE [ok |-> FALSE, is_object |-> FALSE, code |-> <<>>]

\* s.split(sep, n) for a one-atom separator
RECURSIVE SplitMax(_, _, _)
SplitMax(s, sep, n) ==
  LET i == FirstIn(s, {sep}) IN
    IF n = 0 \/ i = 0 THEN <<s>>
    ELSE <<SubSeq(s, 1, i - 1)>> \o SplitMax(SubSeq(s, i + 1, Len(s)), sep, n - 1)

\* the candidate of the third recovery step: fenced[1], without its first line
\* when it holds a \n
FenceCandidate(content) ==
  LET fenced == SplitMax(content, "FENCE", 2)
      candidate == fenced[2]
  IN IF \E i \in 1..Len(candidate) : candidate[i] = "LF"
     THEN JoinLines(Tail(SplitOn(candidate, "LF")))
     ELSE candidate

\* the recovery ladder of ask_llm on message.content: the inner value, or
\* ok = FALSE when OllamaError is raised
recover_inner(content) ==
  IF json_loads(content).ok
  THEN json_loads(content)
  ELSE LET content_stripped == Strip(Strip(content, PyWhitespace), StripChars) IN
    IF json_loads(content_stripped).ok
    THEN json_loads(content_stripped)
    ELSE IF \E i \in 1..Len(content) : content[i] = "FENCE"
    THEN IF Len(SplitMax(content, "FENCE", 2)) >= 2
         THEN [ok |-> TRUE, is_object |-> TRUE, code |-> FenceCandidate(content)]
         ELSE [ok |-> FALSE, is_object |-> FALSE, code |-> <<>>]
    ELSE [ok |-> FALSE, is_object |-> FALSE, code |-> <<>>]

\* what the server and the caller give one call of ask_llm
AskScenarios ==
  {[stage |-> st, content |-> <<>>] :
     st \in {"empty_user_text", "bad_base_url", "URLError", "read_timeout", "body_not_utf8",
             "body_not_json", "no_message_content", "content_not_str"}}
  \cup {[stage |-> "content", content |-> c] : c \in Strings(ContentAlphabet, MaxContentLen)}
  \cup {[stage |-> "content", content |-> c] : c \in Strings(JsonAlphabet, MaxLen)}

\* the end of ask_llm, from the parsed assistant content on: inner.get("code"),
\* the test of the field and the normalization
ask_llm_code(inner) ==
  IF ~inner.is_object
  THEN [raised |-> "AttributeError", msg |-> "object has no attribute 'get'", code |-> <<>>]
  ELSE IF inner.code = <<>>
  THEN [raised |-> "OllamaError", msg |-> "No 'code' field in assistant JSON", code |-> <<>>]
  ELSE [raised |-> "none", msg |-> "", code |-> normalize_code(inner.code)]

\* ask_llm: the code returned, or the exception raised
ask_llm(sc) ==
  CASE sc.stage = "empty_user_text" ->
         [raised |-> "ValueError", msg |-> "user_text must be a non-empty string", code |-> <<>>]
    [] sc.stage = "bad_base_url" ->
         [raised |-> "OllamaError", msg |-> "Invalid base URL", code |-> <<>>]
    [] sc.stage = "URLError" ->
         [raised |-> "OllamaError", msg |-> "Ollama request failed", code |-> <<>>]
    [] sc.stage = "read_timeout" ->
         [raised |-> "TimeoutError", msg |-> "timed out", code |-> <<>>]
    [] sc.stage = "body_not_utf8" ->
         [raised |-> "UnicodeDecodeError", msg |-> "'utf-8' codec can't decode", code |-> <<>>]
    [] sc.stage = "body_not_json" ->
         [raised |-> "OllamaError", msg |-> "Ollama returned non-JSON response", code |-> <<>>]
    [] sc.stage = "no_message_content" ->
         [raised |-> "OllamaError", msg |-> "Unexpected Ollama payload (no message.content)", code |-> <<>>]
    [] sc.stage = "content_not_str" ->
         [raised |-> "TypeError", msg |-> "the JSON object must be str, bytes or bytearray", code |-> <<>>]
    [] OTHER ->
         LET inner == recover_inner(sc.content) IN
           IF ~inner.ok
           THEN [raised |-> "OllamaError", msg |-> "Assistant content is not valid JSON", code |-> <<>>]
           ELSE ask_llm_code(inner)

\* ------------------------------------------------ idaiavibedesign/AIAgent.py
\* what one requests.post of _call_llm can end in: a response that passes
\* raise_for_status, an HTTPError with the response's status (0: an HTTPError
\* whose response has no status_code), or another requests exception
HttpStatuses == {0, 400, 404, 429, 500, 502, 503}

Outcomes ==
  {[kind |-> k, status |-> 0] : k \in {"success", "Timeout", "ConnectionError", "RequestException"}}
  \cup {[kind |-> "HTTPError", status |-> c] : c \in HttpStatuses}

\* the messages of the exceptions _call_llm raises (formatted values left out)
MsgServerError ==
  "Ollama server error (500) - likely memory/resource issue. Try a smaller model or restart Ollama."

MsgModelNotFound == "Model not found. Check if model is installed: ollama pull <model>"

MsgTooManyRequests == "Too many requests. Please wait and try again."

MsgHttpStatus == "HTTP <status_code>: <error>"

MsgHttpError == "HTTP error: <error>"

MsgTimeout ==
  "Request timed out after <timeout> seconds. Try increasing timeout in AI settings or using a faster model."

MsgConnect == "Could not connect to Ollama. Make sure Ollama is running: ollama serve"

MsgFailedAfter == "LLM API call failed after <max_retries> attempts: <error>"

MsgNoResponse == "Failed to get response from LLM"

\* mutant: the last attempt is taken to be attempt == max_retries
IsLastAttempt_off_by_one(n, retries) == n = retries

\* attempt == self.config.max_retries - 1
IsLastAttempt(n, retries) == n = retries - 1

\* mutant: no branch for 404
StatusBranch_without_404(status) ==
  IF status = 500 THEN "server_error"
  ELSE IF status = 429 THEN "rate_limited"
  ELSE "other_status"

\* mutant: no branch for 500
StatusBranch_without_500(status) ==
  IF status = 404 THEN "not_found"
  ELSE IF status = 429 THEN "rate_limited"
  ELSE "other_status"

\* mutant: no branch for 429
StatusBranch_without_429(status) ==
  IF status = 500 THEN "server_error"
  ELSE IF status = 404 THEN "not_found"
  ELSE "other_status"

\* the if/elif chain on status_code
StatusBranch(status) ==
  IF status = 500 THEN "server_error"
  ELSE IF status = 404 THEN "not_found"
  ELSE IF status = 429 THEN "rate_limited"
  ELSE "other_status"

\* one iteration of the for loop of _call_llm, attempt n of retries, whose
\* request ends in o: "return", "raise" (with the message) or "retry" (after
\* the sleep, in seconds)
call_llm_attempt(o, n, retries) ==
  LET last == IsLastAttempt(n, retries)
      raise(msg) == [do |-> "raise", error |-> msg, sleep |-> 0]
      retry(sec) == [do |-> "retry", error |-> "", sleep |-> sec]
  IN CASE o.kind = "success" -> [do |-> "return", error |-> "", sleep |-> 0]
       [] o.kind = "HTTPError" ->
            IF o.status # 0
            THEN CASE StatusBranch(o.status) = "server_error" ->
                        IF last THEN raise(MsgServerError) ELSE retry(5)
                   [] StatusBranch(o.status) = "not_found" -> raise(MsgModelNotFound)
                   [] StatusBranch(o.status) = "rate_limited" ->
                        IF last THEN raise(MsgTooManyRequests) ELSE retry(10)
                   [] OTHER -> IF last THEN raise(MsgHttpStatus) ELSE retry(2 ^ n)
            ELSE IF last THEN raise(MsgHttpError) ELSE retry(2 ^ n)
       [] o.kind = "Timeout" -> IF last THEN raise(MsgTimeout) ELSE retry(5)
       [] o.kind = "ConnectionError" -> IF last THEN raise(MsgConnect) ELSE retry(3)
       [] OTHER -> IF last THEN raise(MsgFailedAfter) ELSE retry(2 ^ n)

\* for attempt in range(self.config.max_retries): the loop body runs again
LoopContinues(n, retries) == n < retries

\* ------------------------------------------------------------------ state
VARIABLES
  t_op,         \* text functions: the function called, "none" before the call
  t_payload,    \* the text the caller holds
  t_wrapped,    \* whether the caller passes it inside a python fence
  t_arg,        \* the argument passed
  t_out,        \* what the call gave: text, error, banned rule, exec reached
  ask_done,     \* ask_llm: whether the call was made
  ask_sc,       \* what the caller and the server gave it
  ask_out,      \* the code returned or the exception raised
  max_retries,  \* _call_llm: self.config.max_retries
  attempt,      \* number of requests.post calls made so far
  trace,        \* what each request ended in
  sleeps,       \* the time.sleep calls made, in seconds
  call_pc,      \* "loop", "returned" or "raised"
  call_error,   \* the message of the exception raised
  call_result,  \* the attempt whose content was returned, 0 when none
  is_busy,      \* AIAgentManager.is_busy
  wpc,          \* where each worker thread is
  callbacks,    \* how often each worker invoked its callback
  last_return,  \* what the last process_async call returned
  rejected,     \* number of process_async calls that returned False
  conversation_history,  \* AIAgent.conversation_history: the prompt and the response of each entry
  pp_response,  \* what _call_llm returned in the last process_prompt call, "none" if nothing
  pp_messages,  \* the message list _call_llm built in the last process_prompt call
  context_objects,  \* AIAgent.context["created_objects"]: "empty", "names" or "not_str"
  prompts,      \* number of process_prompt calls made; the next exchange is prompts + 1
  successes,    \* the exchanges that returned a parsed response since the last clear
  pp_out,       \* what the last process_prompt call did
  main_write,   \* the last main-thread write to the agent: "none", "idle" or "in_flight"
  pr_op,        \* PromptParser: the method called, "none" before the call
  pr_prompt,    \* its prompt argument
  pr_dims,      \* what extract_dimensions returned, in tenths of a millimetre
  pr_shape,     \* what detect_shape returned for pr_prompt
  pr_result,    \* what parse_and_execute returned
  doc_objects,  \* the objects of the active document, in creation order
  ex_count,     \* number of execute_ai_command calls made
  ex_last,      \* the last command and what execute_ai_command did with it
  sheet_names,  \* column A of the parameter spreadsheet from row 2 on, one name per row
  variable_counter,  \* ParametricObjectManager.variable_counter, the next row
  pm_last,      \* the last call on the manager and the name it stored
  pn_prompt,    \* NLPanel.prompt: the text of the prompt box
  dryRun,       \* NLPanel.dryRun: the checkbox is checked
  pn_last,      \* the last on_run: its calls and its log lines
  sheet_rows,   \* the rows of the parameter sheet: the name in column A, the value in column B
  mgr_counter,  \* variable_counter of each manager, 0 before the manager is made
  hx_last,      \* the last create_parametric_hexagon call: arguments and the shape built
  st_file,      \* the settings in ai_settings.json (the defaults when there is no file)
  st_open,      \* an AISettingsPanel is open
  st_ui,        \* the fields of the panel
  st_loaded,    \* the settings load_settings read when the panel was opened
  st_edited,    \* the user changed a field since the panel was opened
  st_saved      \* Save Settings was pressed and no field changed since

text_vars == <<t_op, t_payload, t_wrapped, t_arg, t_out>>

ask_vars == <<ask_done, ask_sc, ask_out>>

call_vars == <<max_retries, attempt, trace, sleeps, call_pc, call_error, call_result>>

async_vars == <<is_busy, wpc, callbacks, last_return, rejected>>

agent_vars ==
  <<conversation_history, context_objects, prompts, successes, pp_out, main_write, pp_response, pp_messages>>

parser_vars == <<pr_op, pr_prompt, pr_dims, pr_result, pr_shape>>

dispatch_vars == <<doc_objects, ex_count, ex_last>>

sheet_vars == <<sheet_names, variable_counter, pm_last>>

panel_vars == <<pn_prompt, dryRun, pn_last>>

rows_vars == <<sheet_rows, mgr_counter, hx_last>>

settings_vars == <<st_file, st_open, st_ui, st_loaded, st_edited, st_saved>>

vars == <<text_vars, ask_vars, call_vars, async_vars, agent_vars, parser_vars, dispatch_vars, sheet_vars, panel_vars, rows_vars, settings_vars>>

Workers == 1..MaxWorkers

NoOut == [s |-> <<>>, error |-> "none", rule |-> 0, executed |-> FALSE]

TextIdle ==
  /\ t_op = "none"
  /\ t_payload = <<>>
  /\ t_wrapped = FALSE
  /\ t_arg = <<>>
  /\ t_out = NoOut

AskIdle ==
  /\ ask_done = FALSE
  /\ ask_sc = [stage |-> "none", content |-> <<>>]
  /\ ask_out = [raised |-> "none", msg |-> "", code |-> <<>>]

CallIdle ==
  /\ attempt = 0
  /\ trace = <<>>
  /\ sleeps = <<>>
  /\ call_error = ""
  /\ call_result = 0

\* AIAgentManager.__init__
AsyncIdle ==
  /\ is_busy = FALSE
  /\ wpc = [w \in Workers |-> "none"]
  /\ callbacks = [w \in Workers |-> 0]
  /\ last_return = "none"
  /\ rejected = 0

\* ------------------------------------------- AIAgent.process_prompt
\* len(self.conversation_history) > 5 / [-5:]
HISTORY_KEEP == 5

\* the context argument of process_prompt: None or {}, a dict whose
\* created_objects is [], a list of names or a list holding a non-str, or a
\* truthy value that is not a mapping
ContextArgs == {"none", "objects_empty", "objects_names", "objects_not_str", "not_a_mapping"}

\* what _call_llm does: returns JSON with a commands list, returns other
\* text, returns a content that is not a str (null), or raises
LlmResults == {"json_commands", "text", "content_none", "raises"}

\* if context: self.context.update(context)
context_update(objs, ctx) ==
  CASE ctx = "none" -> [raised |-> FALSE, objects |-> objs]
    [] ctx = "not_a_mapping" -> [raised |-> TRUE, objects |-> objs]
    [] ctx = "objects_empty" -> [raised |-> FALSE, objects |-> "empty"]
    [] ctx = "objects_names" -> [raised |-> FALSE, objects |-> "names"]
    [] OTHER -> [raised |-> FALSE, objects |-> "not_str"]

\* _get_system_prompt raises TypeError in ', '.join(created_objects) when the
\* list holds a value that is not a str
system_prompt_raises(objs) == objs = "not_str"

\* _call_llm or _parse_ai_response raises inside the try block
try_block_raises(llm) == llm \in {"content_none", "raises"}

\* mutant: the first five entries are kept
TrimHistory_keeps_oldest(h) == IF Len(h) > HISTORY_KEEP THEN SubSeq(h, 1, HISTORY_KEEP) ELSE h

\* if len(self.conversation_history) > 5: keep [-5:]
TrimHistory(h) ==
  IF Len(h) > HISTORY_KEEP THEN SubSeq(h, Len(h) - HISTORY_KEEP + 1, Len(h)) ELSE h

PromptRaised == [kind |-> "raised", error |-> FALSE, fallback |-> FALSE]

\* the number of history entries _call_llm sends along: [-2:]
HISTORY_SENT == 2

\* mutant: the first two entries of the history are sent
LastExchanges_oldest(history) == SubSeq(history, 1, IF Len(history) < HISTORY_SENT THEN Len(history) ELSE HISTORY_SENT)

\* self.conversation_history[-2:]
LastExchanges(history) ==
  IF Len(history) <= HISTORY_SENT THEN history
  ELSE SubSeq(history, Len(history) - HISTORY_SENT + 1, Len(history))

\* messages.insert(-1, x): x goes in front of the last element
InsertBeforeLast(m, x) == SubSeq(m, 1, Len(m) - 1) \o <<x>> \o <<m[Len(m)]>>

\* the for loop of _call_llm over the entries: the user message, then the
\* assistant message, each inserted in front of the last element
RECURSIVE AddExchanges(_, _)
AddExchanges(m, entries) ==
  IF entries = <<>> THEN m
  ELSE LET e == Head(entries)
           m1 == InsertBeforeLast(m, [role |-> "user", id |-> e.user, content |-> "prompt"])
           m2 == InsertBeforeLast(m1, [role |-> "assistant", id |-> e.user, content |-> e.assistant])
       IN AddExchanges(m2, Tail(entries))

\* the messages of _call_llm for the prompt of exchange id: the system
\* message and the user prompt, then the loop over the last entries
call_llm_messages(history, id) ==
  AddExchanges(<< [role |-> "system", id |-> 0, content |-> "system_prompt"],
                  [role |-> "user", id |-> id, content |-> "prompt"] >>,
               LastExchanges(history))

\* mutant: the entry is appended before the response is parsed
process_prompt_appends_before_parsing(history, objs, id, ctx, llm) ==
  LET u == context_update(objs, ctx)
      entry == [user |-> id, assistant |-> llm]
  IN
    IF u.raised
    THEN [history |-> history, objects |-> objs, out |-> PromptRaised,
          response |-> "none", messages |-> <<>>]
    ELSE IF system_prompt_raises(u.objects)
    THEN [history |-> history, objects |-> u.objects, out |-> PromptRaised,
          response |-> "none", messages |-> <<>>]
    ELSE IF try_block_raises(llm)
    THEN [history |-> IF llm = "raises" THEN history ELSE TrimHistory(Append(history, entry)),
          objects |-> u.objects,
          out |-> [kind |-> "returned", error |-> TRUE, fallback |-> TRUE],
          response |-> IF llm = "raises" THEN "none" ELSE llm,
          messages |-> call_llm_messages(history, id)]
    ELSE [history |-> TrimHistory(Append(history, entry)),
          objects |-> u.objects,
          out |-> [kind |-> "returned", error |-> FALSE, fallback |-> llm = "text"],
          response |-> llm, messages |-> call_llm_messages(history, id)]

\* process_prompt(user_prompt, context) as exchange id: the new history and
\* context, what the call did (return the parsed response, return
\* {"error": ..., "fallback": True}, or raise), the response _call_llm gave
\* and the messages it built
process_prompt(history, objs, id, ctx, llm) ==
  LET u == context_update(objs, ctx)
      entry == [user |-> id, assistant |-> llm]
  IN
    IF u.raised
    THEN [history |-> history, objects |-> objs, out |-> PromptRaised,
          response |-> "none", messages |-> <<>>]
    ELSE IF system_prompt_raises(u.objects)
    THEN [history |-> history, objects |-> u.objects, out |-> PromptRaised,
          response |-> "none", messages |-> <<>>]
    ELSE IF try_block_raises(llm)
    THEN [history |-> history, objects |-> u.objects,
          out |-> [kind |-> "returned", error |-> TRUE, fallback |-> TRUE],
          response |-> IF llm = "raises" THEN "none" ELSE llm,
          messages |-> call_llm_messages(history, id)]
    ELSE [history |-> TrimHistory(Append(history, entry)),
          objects |-> u.objects,
          out |-> [kind |-> "returned", error |-> FALSE, fallback |-> llm = "text"],
          response |-> llm, messages |-> call_llm_messages(history, id)]

\* AIAgent.__init__
AgentIdle ==
  /\ conversation_history = <<>>
  /\ context_objects = "empty"
  /\ prompts = 0
  /\ successes = <<>>
  /\ pp_out = [kind |-> "none", error |-> FALSE, fallback |-> FALSE]
  /\ main_write = "none"
  /\ pp_response = "none"
  /\ pp_messages = <<>>

\* --------------------------------- VibeDesignCommands.py: PromptParser
\* A prompt is a sequence of pieces of lower-case text: the digits 8 and 2,
\* the letter x, a space, the unit words mm, cm, dm and m, the shape words box
\* and cone, and the field name height.  Lengths are counted in tenths of a
\* millimetre, so that every factor of the unit table is a whole number.
PromptAlphabet == {"8", "2", "x", " ", "mm", "cm", "dm", "m", "box", "cone", "height"}

Digits == {"8", "2"}

\* the pieces [a-z"']* matches
UnitChars == {"x", "mm", "cm", "dm", "m", "box", "cone", "height", "width", "pipe", "ball"}

\* float() of a run of digits
RECURSIVE NumVal(_)
NumVal(run) ==
  IF run = <<>> THEN 0
  ELSE NumVal(SubSeq(run, 1, Len(run) - 1)) * 10 + (IF run[Len(run)] = "8" THEN 8 ELSE 2)

\* the end of the longest run of pieces of set that starts at i; i - 1 when
\* there is none
RECURSIVE RunEnd(_, _, _)
RunEnd(p, i, set) ==
  IF i <= Len(p) /\ p[i] \in set THEN RunEnd(p, i + 1, set) ELSE i - 1

\* mutant: cm missing from the table
UnitFactor_without_cm(unit) ==
  CASE unit = <<>> \/ unit = <<"mm">> \/ unit = <<"m", "m">> -> 10
    [] unit = <<"dm">> -> 1000
    [] unit = <<"m">> -> 10000
    [] OTHER -> 10

\* self.units.get(unit or 'mm', 1.0) for the unit text made of the pieces of
\* unit; the entries in, ft, " and ' of the table cannot be written with the
\* pieces of PromptAlphabet
UnitFactor(unit) ==
  CASE unit = <<>> \/ unit = <<"mm">> \/ unit = <<"m", "m">> -> 10
    [] unit = <<"cm">> -> 100
    [] unit = <<"dm">> -> 1000
    [] unit = <<"m">> -> 10000
    [] OTHER -> 10

\* the unit group \s*([a-z"']*) matched from position k
UnitAt(p, k) ==
  LET u == RunEnd(p, k, {" "}) + 1 IN SubSeq(p, u, RunEnd(p, u, UnitChars))

\* (\d+(?:\.\d+)?)x(\d+(?:\.\d+)?)x(\d+(?:\.\d+)?) matches at position i
XyzMatchAt(p, i) ==
  LET e1 == RunEnd(p, i, Digits)
      e2 == RunEnd(p, e1 + 2, Digits)
  IN /\ e1 >= i
     /\ e1 + 1 <= Len(p) /\ p[e1 + 1] = "x"
     /\ e2 >= e1 + 2
     /\ e2 + 1 <= Len(p) /\ p[e2 + 1] = "x"
     /\ RunEnd(p, e2 + 2, Digits) >= e2 + 2

\* xyz_match = re.search(...): the groups of the first match, found FALSE when
\* there is none
XyzMatch(p) ==
  LET starts == {i \in 1..Len(p) : XyzMatchAt(p, i)} IN
    IF starts = {} THEN [found |-> FALSE, x |-> 0, y |-> 0, z |-> 0, unit |-> <<>>]
    ELSE LET i == CHOOSE s \in starts : \A r \in starts : s <= r
             e1 == RunEnd(p, i, Digits)
             e2 == RunEnd(p, e1 + 2, Digits)
             e3 == RunEnd(p, e2 + 2, Digits)
         IN [found |-> TRUE,
             x |-> NumVal(SubSeq(p, i, e1)),
             y |-> NumVal(SubSeq(p, e1 + 2, e2)),
             z |-> NumVal(SubSeq(p, e2 + 2, e3)),
             unit |-> UnitAt(p, e3 + 1)]

\* the names of the individual dimension patterns
NamedPatterns == {"diameter", "radius", "height", "length", "width"}

\* <name>\s+(\d+(?:\.\d+)?)\s*([a-z"']*) matches at position i
NamedMatchAt(p, name, i) ==
  LET w == RunEnd(p, i + 1, {" "}) IN
    /\ p[i] = name
    /\ w >= i + 1
    /\ RunEnd(p, w + 1, Digits) >= w + 1

\* match = re.search(pattern, prompt) for one individual pattern
NamedMatch(p, name) ==
  LET starts == {i \in 1..Len(p) : NamedMatchAt(p, name, i)} IN
    IF starts = {} THEN [found |-> FALSE, value |-> 0, unit |-> <<>>]
    ELSE LET i == CHOOSE s \in starts : \A r \in starts : s <= r
             w == RunEnd(p, i + 1, {" "})
             e == RunEnd(p, w + 1, Digits)
         IN [found |-> TRUE, value |-> NumVal(SubSeq(p, w + 1, e)), unit |-> UnitAt(p, e + 1)]

\* mutant: a field of the compound pattern is not overwritten by a named one
extract_dimensions_compound_wins(p) ==
  LET xyz == XyzMatch(p)
      compound == IF xyz.found THEN {"length", "width", "height"} ELSE {}
      named == {n \in NamedPatterns : NamedMatch(p, n).found}
  IN [k \in compound \cup named |->
        IF k \in compound
        THEN (CASE k = "length" -> xyz.x [] k = "width" -> xyz.y [] OTHER -> xyz.z)
               * UnitFactor(xyz.unit)
        ELSE NamedMatch(p, k).value * UnitFactor(NamedMatch(p, k).unit)]

\* PromptParser.extract_dimensions: a mapping from field names to lengths
extract_dimensions(p) ==
  LET xyz == XyzMatch(p)
      named == {n \in NamedPatterns : NamedMatch(p, n).found}
      keys == (IF xyz.found THEN {"length", "width", "height"} ELSE {}) \cup named
  IN [k \in keys |->
        IF k \in named
        THEN NamedMatch(p, k).value * UnitFactor(NamedMatch(p, k).unit)
        ELSE (CASE k = "length" -> xyz.x [] k = "width" -> xyz.y [] OTHER -> xyz.z)
               * UnitFactor(xyz.unit)]

\* dims.get(key, default)
DictGet(dims, key, default) == IF key \in DOMAIN dims THEN dims[key] ELSE default

\* the default of 10 mm of create_box, create_cylinder, create_sphere and
\* create_cone, in tenths of a millimetre
DefaultDim == 100

\* shape_patterns, in the order of the dict
ShapePatterns ==
  << <<"box", {"box", "cube", "rectangular", "cuboid"}>>,
     <<"cylinder", {"cylinder", "tube", "pipe"}>>,
     <<"sphere", {"sphere", "ball"}>>,
     <<"cone", {"cone"}>> >>

\* mutant: the shape whose keyword comes first in the text
detect_shape_first_in_text(p) ==
  LET at == {i \in 1..Len(p) : \E k \in 1..Len(ShapePatterns) : p[i] \in ShapePatterns[k][2]} IN
    IF at = {} THEN "None"
    ELSE LET i == CHOOSE a \in at : \A b \in at : a <= b
         IN ShapePatterns[CHOOSE k \in 1..Len(ShapePatterns) : p[i] \in ShapePatterns[k][2]][1]

\* detect_shape: the first shape one of whose patterns is found, or "None"
detect_shape(p) ==
  LET hits == {k \in 1..Len(ShapePatterns) :
                 \E i \in 1..Len(p) : p[i] \in ShapePatterns[k][2]} IN
    IF hits = {} THEN "None"
    ELSE ShapePatterns[CHOOSE k \in hits : \A j \in hits : k <= j][1]

NoObject == [created |-> FALSE, shape |-> "None", props |-> <<>>]

\* create_shape with create_box, create_cylinder, create_sphere, create_cone:
\* the object added to the document
create_shape(shape_type, dims) ==
  LET radius == DictGet(dims, "radius", DictGet(dims, "diameter", DefaultDim) \div 2) IN
    CASE shape_type = "box" ->
           LET length == DictGet(dims, "length", DefaultDim) IN
             [created |-> TRUE, shape |-> "box",
              props |-> <<length, DictGet(dims, "width", length), DictGet(dims, "height", length)>>]
      [] shape_type = "cylinder" ->
           [created |-> TRUE, shape |-> "cylinder",
            props |-> <<radius, DictGet(dims, "height", DefaultDim)>>]
      [] shape_type = "sphere" ->
           [created |-> TRUE, shape |-> "sphere", props |-> <<radius>>]
      [] shape_type = "cone" ->
           [created |-> TRUE, shape |-> "cone",
            props |-> <<radius, 0, DictGet(dims, "height", DefaultDim)>>]
      [] OTHER -> NoObject

\* PromptParser.parse_and_execute: None when no shape is detected or when
\* extract_dimensions returns a falsy mapping
parse_and_execute(prompt) ==
  LET p == Strip(prompt, {" "})
      shape_type == detect_shape(p)
      dimensions == extract_dimensions(p)
  IN IF shape_type = "None" THEN NoObject
     ELSE IF DOMAIN dimensions = {} THEN NoObject
     ELSE create_shape(shape_type, dimensions)

\* beginnings of the prompts that hold a compound AxBxC
PromptBeginnings ==
  {<<>>, <<"box", " ">>, <<"x">>, <<"8">>, <<"8", "x">>, <<"height", " ", "2", " ">>}

Compounds == {<<a, "x", b, "x", c>> : a \in Digits, b \in Digits, c \in Digits}

\* a named field, height N or width N
NamedFields == {<<n, " ", d>> : n \in {"height", "width"}, d \in Digits}

\* two shape words, in both orders
ShapeWordPairs == {<<a, " ", b>> : a \in {"pipe", "box", "ball", "cone"}, b \in {"pipe", "box", "ball", "cone"}}

\* the prompts tried: every short text; a compound after a beginning and
\* before every short ending; a compound with or without a unit, before or
\* after a named field; two shape words, alone or followed by a compound
Prompts ==
  Strings(PromptAlphabet, MaxLen)
  \cup {b \o c \o e : b \in PromptBeginnings, c \in Compounds, e \in Strings(PromptAlphabet, MaxEnding)}
  \cup {f \o <<" ">> \o c \o u : f \in NamedFields, c \in Compounds, u \in {<<>>, <<"cm">>}}
  \cup {c \o u \o <<" ">> \o f : f \in NamedFields, c \in Compounds, u \in {<<>>, <<"cm">>}}
  \cup {w \o e : w \in ShapeWordPairs, e \in {<<>>, <<" ", "8", "x", "8", "x", "2">>}}

ParserIdle ==
  /\ pr_op = "none"
  /\ pr_shape = "None"
  /\ pr_prompt = <<>>
  /\ pr_dims = <<>>
  /\ pr_result = NoObject

\* ------------------- VibeDesignCommands.py: execute_ai_command
\* the shapes the system prompt of the agent offers the model
ShapeEnum == {"box", "cylinder", "sphere", "cone", "torus", "wedge", "hexagon"}

\* the commands tried: type create, another type or no type (create is the
\* default); a shape of the enum, another shape or none; a position with its
\* three coordinates, with one missing, or none (the default has all three)
Commands ==
  [type : {"create", "modify", "absent"},
   shape : ShapeEnum \cup {"pyramid", "absent"},
   position : {"xyz", "partial", "absent"}]

\* the FreeCAD type each create_ai_ method adds, "None" for a shape that has
\* no branch
PartType(shape) ==
  CASE shape = "box" -> "Part::Box"
    [] shape = "cylinder" -> "Part::Cylinder"
    [] shape = "sphere" -> "Part::Sphere"
    [] shape = "cone" -> "Part::Cone"
    [] shape = "torus" -> "Part::Torus"
    [] shape = "wedge" -> "Part::Wedge"
    [] OTHER -> "None"

\* PromptParser.generate_object_name: the capitalized shape, followed by the
\* first counter from 001 that makes the name new (0: no counter needed)
generate_object_name(objects, shape) ==
  LET used == {objects[i].name : i \in 1..Len(objects)}
      free == {n \in 0..Len(objects) : [base |-> shape, n |-> n] \notin used}
  IN [base |-> shape, n |-> CHOOSE n \in free : \A m \in free : n <= m]

\* execute_ai_command(command): the document afterwards and the outcome:
\* the description returned ("created"), None, or an exception
execute_ai_command(objects, command) ==
  LET cmd_type == IF command.type = "absent" THEN "create" ELSE command.type IN
    IF cmd_type = "create" /\ command.shape # "absent"
    THEN IF PartType(command.shape) = "None"
         THEN [objects |-> objects, outcome |-> "None"]
         ELSE LET obj == [type |-> PartType(command.shape),
                          name |-> generate_object_name(objects, command.shape)]
              IN [objects |-> Append(objects, obj),
                  outcome |-> IF command.position = "partial" THEN "raised" ELSE "created"]
    ELSE [objects |-> objects, outcome |-> "None"]

DispatchIdle ==
  /\ doc_objects = <<>>
  /\ ex_count = 0
  /\ ex_last = [command |-> [type |-> "absent", shape |-> "absent", position |-> "absent"],
                outcome |-> "none"]

\* ------------------------- ParametricManager.py: the parameter spreadsheet
\* A name is a sequence of pieces of text: the letter a, the words var and
\* constraint, the digits 0 to 9, the underscore, and - for a character that
\* is not allowed in a name.
NameDigits == <<"0", "1", "2", "3", "4", "5", "6", "7", "8", "9">>

NameDigitSet == {NameDigits[i] : i \in 1..10}

\* the names create_variable is called with
RawNames ==
  {<<>>, <<"a">>, <<"-">>, <<"a", "-", "a">>, <<"-", "a", "-">>, <<"3", "a">>, <<"_", "_">>,
   <<"a", "_", "1">>, <<"var", "_">>, <<"var", "_", "3", "a">>,
   <<"constraint", "_", "3">>, <<"constraint", "_", "4">>}

\* str(n) for n >= 0
RECURSIVE Decimal(_)
Decimal(n) ==
  IF n < 10 THEN <<NameDigits[n + 1]>> ELSE Decimal(n \div 10) \o <<NameDigits[(n % 10) + 1]>>

\* re.sub(r'[^a-zA-Z0-9_]', '_', name), strip('_'), and the var_ prefix for
\* an empty name or one that starts with a digit
SanitizeName(name) ==
  LET subbed == [i \in 1..Len(name) |-> IF name[i] = "-" THEN "_" ELSE name[i]]
      clean == Strip(subbed, {"_"})
  IN IF clean = <<>> \/ clean[1] \in NameDigitSet THEN <<"var", "_">> \o clean ELSE clean

\* _variable_exists(name): a cell of column A below the header holds name
variable_exists(names, name) == \E i \in 1..Len(names) : names[i] = name

\* the while loop of create_variable: original_name when it is new, else
\* original_name_<counter> for the first counter from 1 that is new
UniqueName(names, original_name) ==
  IF ~variable_exists(names, original_name) THEN original_name
  ELSE LET free == {c \in 1..(Len(names) + 1) :
                      ~variable_exists(names, original_name \o <<"_">> \o Decimal(c))}
       IN original_name \o <<"_">> \o Decimal(CHOOSE c \in free : \A d \in free : c <= d)

\* create_variable(name, ...): the name written to column A
create_variable(names, name) == UniqueName(names, SanitizeName(name))

\* add_constraint(expression): the name written to column A
constraint_name(counter) == <<"constraint", "_">> \o Decimal(counter)

\* __init__ on a document without a parameter spreadsheet: the sheet holds
\* its header row only and _get_next_variable_counter returns 2
SheetIdle ==
  /\ sheet_names = <<>>
  /\ variable_counter = 2
  /\ pm_last = [op |-> "none", name |-> <<>>]

\* ------------------------------------------------- addon/idaia/ui/panel.py
\* what the user can type into the prompt box, and the code field of the
\* JSON object the model answers with
PanelPromptAlphabet == {" ", "box"}

PanelCodeAlphabet == {"x=1", "import os", "eval(1)", "{", " "}

\* what the server can answer to the panel's request: a failure of the
\* request, or a JSON object whose code field is the given text
PanelReplies ==
  {[stage |-> st, content |-> <<>>] :
     st \in {"bad_base_url", "URLError", "read_timeout", "body_not_json", "no_message_content"}}
  \cup {[stage |-> "code_object", content |-> c] : c \in Strings(PanelCodeAlphabet, MaxField)}

\* the call ask_llm(user_text=text, ...) of on_run
panel_ask_llm(reply) ==
  IF reply.stage = "code_object"
  THEN ask_llm_code([ok |-> TRUE, is_object |-> TRUE, code |-> reply.content])
  ELSE ask_llm(reply)

\* mutant: the code is run whatever the checkbox says
RunsCode_always(checked) == TRUE

\* if not self.dryRun.isChecked()
RunsCode(checked) == ~checked

\* on_run: which calls it made and what it logged
on_run(prompt_text, checked, reply) ==
  LET text == Strip(prompt_text, PyWhitespace)
      r == panel_ask_llm(reply)
      run == safe_run(r.code)
      base == [no_prompt |-> FALSE, dry |-> checked, asked |-> TRUE, code |-> r.code,
               ran |-> FALSE, executed |-> FALSE, log |-> <<>>]
  IN IF text = <<>>
     THEN [base EXCEPT !.no_prompt = TRUE, !.asked = FALSE, !.code = <<>>,
                       !.log = <<"No prompt.">>]
     ELSE IF r.raised # "none"
     THEN [base EXCEPT !.log = <<"ERROR", "traceback">>]
     ELSE IF RunsCode(checked)
     THEN IF run.executed
          THEN [base EXCEPT !.ran = TRUE, !.executed = TRUE,
                            !.log = <<"Generated code", "Executed.">>]
          ELSE [base EXCEPT !.ran = TRUE,
                            !.log = <<"Generated code", "ERROR", "traceback">>]
     ELSE [base EXCEPT !.log = <<"Generated code", "Dry run only (not executed).">>]

PanelIdle ==
  /\ pn_prompt = <<>>
  /\ dryRun = FALSE
  /\ pn_last = [no_prompt |-> FALSE, dry |-> FALSE, asked |-> FALSE, code |-> <<>>,
                ran |-> FALSE, executed |-> FALSE, log |-> <<>>]

\* ----------------- ParametricManager.py: the rows of the parameter sheet
\* the manager instances made for one document
Managers == 1..MaxManagers

\* the rows below the header row
Rows == 2..MaxRow

\* a row nothing was written to
EmptyRow == [name |-> <<>>, value |-> 0]

\* the names of column A by row, as _variable_exists reads them
ColumnA(cells) == [i \in 1..(MaxRow - 1) |-> cells[i + 1].name]

\* _get_next_variable_counter: one more than the highest used row of column
\* A, 2 when only the header row is used
next_variable_counter(cells) ==
  LET used == {r \in Rows : cells[r] # EmptyRow} IN
    IF used = {} THEN 2 ELSE (CHOOSE r \in used : \A q \in used : r >= q) + 1

\* create_variable(name, value): the row self.variable_counter is written
\* and the counter grows by one
create_variable_row(cells, counter, name, value) ==
  [cells |-> [cells EXCEPT ![counter] =
                [name |-> create_variable(ColumnA(cells), name), value |-> value]],
   counter |-> counter + 1]

\* add_constraint(expression): the same with the name constraint_<counter>
add_constraint_row(cells, counter, value) ==
  [cells |-> [cells EXCEPT ![counter] = [name |-> constraint_name(counter), value |-> value]],
   counter |-> counter + 1]

\* the position arguments tried: the origin (also what a missing position
\* becomes) and positions with one or three coordinates that are not 0
HexPositions == {<<0, 0, 0>>, <<0, 0, 7>>, <<5, 6, 7>>}

\* create_parametric_hexagon(name, dimensions, position) for the name h: the
\* variables h_width and h_height, three position variables when a
\* coordinate is not 0, and the shape built from the cells
\* B<counter - 2> and B<counter - 1>
create_parametric_hexagon(cells, counter, width, height, position) ==
  LET s1 == create_variable_row(cells, counter, <<"h", "_", "width">>, width)
      s2 == create_variable_row(s1.cells, s1.counter, <<"h", "_", "height">>, height)
      s3 == create_variable_row(s2.cells, s2.counter, <<"h", "_", "x">>, position[1])
      s4 == create_variable_row(s3.cells, s3.counter, <<"h", "_", "y">>, position[2])
      s5 == create_variable_row(s4.cells, s4.counter, <<"h", "_", "z">>, position[3])
      s == IF \E i \in 1..3 : position[i] # 0 THEN s5 ELSE s2
  IN [cells |-> s.cells, counter |-> s.counter,
      shape |-> [width |-> s.cells[s.counter - 2].value,
                 height |-> s.cells[s.counter - 1].value]]

\* a document without a parameter sheet and no manager made yet (counter 0)
RowsIdle ==
  /\ sheet_rows = [r \in Rows |-> EmptyRow]
  /\ mgr_counter = [m \in Managers |-> 0]
  /\ hx_last = [op |-> "none", width |-> 0, height |-> 0, position |-> <<0, 0, 0>>,
                shape |-> [width |-> 0, height |-> 0]]

\* ------------------------------------------- idaiavibedesign/AISettings.py
\* the providers of the combo box that are tried; anthropic is handled like
\* openai, with other defaults
Providers == {"ollama", "openai"}

\* the model and the base URL on_provider_changed writes for a provider
ProviderDefaults(provider) ==
  CASE provider = "ollama" -> [model |-> "llama3.1:8b", base_url |-> "http://localhost:11434/v1"]
    [] provider = "openai" -> [model |-> "gpt-4", base_url |-> "https://api.openai.com/v1"]
    [] OTHER -> [model |-> "claude-3-5-sonnet-20241022", base_url |-> "https://api.anthropic.com"]

\* what the user can type into the model, base URL and API key fields and
\* set in the retries spin box
ModelTexts == {ProviderDefaults(p).model : p \in Providers} \cup {"qwen2.5:7b"}

BaseUrlTexts == {ProviderDefaults(p).base_url : p \in Providers} \cup {"http://gpu-box:11434/v1"}

ApiKeyTexts == {"", "sk-key"}

RetriesValues == {2, 3}

\* AIAgentConfig(): the settings when no file was saved
DefaultSettings ==
  [provider |-> "ollama", model |-> "llama3.1:8b", api_key |-> "",
   base_url |-> "http://localhost:11434/v1", max_retries |-> 2]

\* mutant: the fields are left as setup_ui filled them
on_provider_changed_keeps_fields(ui, provider) == ui

\* on_provider_changed(provider): the model and base URL fields get the
\* provider's defaults, and for ollama the API key field is emptied
on_provider_changed(ui, provider) ==
  [ui EXCEPT !.model = ProviderDefaults(provider).model,
             !.base_url = ProviderDefaults(provider).base_url,
             !.api_key = IF provider = "ollama" THEN "" ELSE @]

\* setup_ui on the loaded config: the widgets are filled from the config, and
\* the last statement calls on_provider_changed(self.config.provider)
setup_ui(config) == on_provider_changed(config, config.provider)

\* no file saved, no panel open
SettingsIdle ==
  /\ st_file = DefaultSettings
  /\ st_open = FALSE
  /\ st_ui = DefaultSettings
  /\ st_loaded = DefaultSettings
  /\ st_edited = FALSE
  /\ st_saved = FALSE

\* ----------------------------------------------------- the text functions
InitText ==
  /\ TextIdle /\ AskIdle /\ CallIdle /\ AsyncIdle /\ AgentIdle /\ ParserIdle /\ DispatchIdle /\ SheetIdle /\ PanelIdle /\ RowsIdle /\ SettingsIdle
  /\ max_retries = 0
  /\ call_pc = "idle"

\* the argument a caller passes for payload c
Argument(c, wrapped) == IF wrapped THEN Fenced(c) ELSE c

\* safe_run(code_str)
SafeRun ==
  /\ t_op = "none"
  /\ \E c \in Strings(CodeAlphabet, MaxLen), wrapped \in BOOLEAN :
       /\ t_op' = "safe_run"
       /\ t_payload' = c
       /\ t_wrapped' = wrapped
       /\ t_arg' = Argument(c, wrapped)
       /\ t_out' = safe_run(Argument(c, wrapped))
  /\ UNCHANGED <<ask_vars, call_vars, async_vars, agent_vars, parser_vars, dispatch_vars, sheet_vars, panel_vars, rows_vars, settings_vars>>

\* _normalize_code(code), the last step of ask_llm
NormalizeCode ==
  /\ t_op = "none"
  /\ \E c \in Strings(CodeAlphabet, MaxLen), wrapped \in BOOLEAN :
       /\ t_op' = "normalize_code"
       /\ t_payload' = c
       /\ t_wrapped' = wrapped
       /\ t_arg' = Argument(c, wrapped)
       /\ t_out' = [NoOut EXCEPT !.s = normalize_code(Argument(c, wrapped))]
  /\ UNCHANGED <<ask_vars, call_vars, async_vars, agent_vars, parser_vars, dispatch_vars, sheet_vars, panel_vars, rows_vars, settings_vars>>

\* _trim_trailing_unmatched_braces(t) of the executor
TrimBraces ==
  /\ t_op = "none"
  /\ \E c \in Strings(CodeAlphabet, MaxLen) :
       /\ t_op' = "trim_braces"
       /\ t_payload' = c
       /\ t_arg' = c
       /\ t_out' = [NoOut EXCEPT !.s = trim_trailing_unmatched_braces(c)]
  /\ UNCHANGED <<t_wrapped, ask_vars, call_vars, async_vars, agent_vars, parser_vars, dispatch_vars, sheet_vars, panel_vars, rows_vars, settings_vars>>

\* _trim_trailing_unmatched_braces(t) of the client
ClientTrimBraces ==
  /\ t_op = "none"
  /\ \E c \in Strings(CodeAlphabet, MaxLen) :
       /\ t_op' = "client_trim_braces"
       /\ t_payload' = c
       /\ t_arg' = c
       /\ t_out' = [NoOut EXCEPT !.s = client_trim_trailing_unmatched_braces(c)]
  /\ UNCHANGED <<t_wrapped, ask_vars, call_vars, async_vars, agent_vars, parser_vars, dispatch_vars, sheet_vars, panel_vars, rows_vars, settings_vars>>

NextText == SafeRun \/ NormalizeCode \/ TrimBraces \/ ClientTrimBraces

SpecText == InitText /\ [][NextText]_vars

\* ---------------------------------------------------------------- ask_llm
InitAsk == InitText

\* ask_llm(user_text, base_url, ...)
AskLlm ==
  /\ ~ask_done
  /\ \E sc \in AskScenarios :
       /\ ask_done' = TRUE
       /\ ask_sc' = sc
       /\ ask_out' = ask_llm(sc)
  /\ UNCHANGED <<text_vars, call_vars, async_vars, agent_vars, parser_vars, dispatch_vars, sheet_vars, panel_vars, rows_vars, settings_vars>>

NextAsk == AskLlm

SpecAsk == InitAsk /\ [][NextAsk]_vars

\* ----------------------------------------------------- AIAgent._call_llm
\* the agent enters the retry loop of _call_llm with the configured max_retries
InitCall ==
  /\ TextIdle /\ AskIdle /\ CallIdle /\ AsyncIdle /\ AgentIdle /\ ParserIdle /\ DispatchIdle /\ SheetIdle /\ PanelIdle /\ RowsIdle /\ SettingsIdle
  /\ max_retries \in 0..MaxRetries
  /\ call_pc = "loop"

\* one iteration of the for loop: the request, then return, raise or sleep
Attempt ==
  /\ call_pc = "loop"
  /\ LoopContinues(attempt, max_retries)
  /\ \E o \in Outcomes :
       LET r == call_llm_attempt(o, attempt, max_retries) IN
         /\ attempt' = attempt + 1
         /\ trace' = Append(trace, o)
         /\ call_pc' = CASE r.do = "return" -> "returned"
                         [] r.do = "raise" -> "raised"
                         [] OTHER -> "loop"
         /\ call_error' = r.error
         /\ call_result' = IF r.do = "return" THEN attempt + 1 ELSE 0
         /\ sleeps' = IF r.do = "retry" THEN Append(sleeps, r.sleep) ELSE sleeps
  /\ UNCHANGED <<max_retries, text_vars, ask_vars, async_vars, agent_vars, parser_vars, dispatch_vars, sheet_vars, panel_vars, rows_vars, settings_vars>>

\* the loop ends without a return or a raise: raise Exception("Failed to get
\* response from LLM")
LoopExhausted ==
  /\ call_pc = "loop"
  /\ ~LoopContinues(attempt, max_retries)
  /\ call_pc' = "raised"
  /\ call_error' = MsgNoResponse
  /\ UNCHANGED <<max_retries, attempt, trace, sleeps, call_result, text_vars, ask_vars, async_vars, agent_vars, parser_vars, dispatch_vars, sheet_vars, panel_vars, rows_vars, settings_vars>>

NextCall == Attempt \/ LoopExhausted

SpecCall == InitCall /\ [][NextCall]_vars

\* ------------------------------------------- AIAgentManager.process_async
InitAsync == InitText

\* the worker thread the next accepted call starts
NextWorker == CHOOSE w \in Workers : wpc[w] = "none" /\ \A v \in 1..(w - 1) : wpc[v] # "none"

\* process_async(prompt, callback, context), on the calling thread: return
\* False when is_busy, else start a worker thread and return True
ProcessAsync ==
  /\ IF is_busy
     THEN /\ rejected < MaxRejected
          /\ rejected' = rejected + 1
          /\ last_return' = "False"
          /\ UNCHANGED wpc
     ELSE /\ \E w \in Workers : wpc[w] = "none"
          /\ wpc' = [wpc EXCEPT ![NextWorker] = "started"]
          /\ last_return' = "True"
          /\ UNCHANGED rejected
  /\ UNCHANGED <<is_busy, callbacks, text_vars, ask_vars, call_vars, agent_vars, parser_vars, dispatch_vars, sheet_vars, panel_vars, rows_vars, settings_vars>>

\* worker: self.is_busy = True
WorkerSetBusy(w) ==
  /\ wpc[w] = "started"
  /\ is_busy' = TRUE
  /\ wpc' = [wpc EXCEPT ![w] = "processing"]
  /\ UNCHANGED <<callbacks, last_return, rejected, text_vars, ask_vars, call_vars, agent_vars, parser_vars, dispatch_vars, sheet_vars, panel_vars, rows_vars, settings_vars>>

\* worker: result = self.agent.process_prompt(prompt, context), which returns
\* a result or raises
WorkerProcess(w) ==
  /\ wpc[w] = "processing"
  /\ \E ctx \in ContextArgs, llm \in LlmResults :
       LET r == process_prompt(conversation_history, context_objects, prompts + 1, ctx, llm) IN
         /\ conversation_history' = r.history
         /\ context_objects' = r.objects
         /\ pp_out' = r.out
         /\ pp_response' = r.response
         /\ pp_messages' = r.messages
         /\ successes' = IF r.out.kind = "returned" /\ ~r.out.error
                         THEN Append(successes, [user |-> prompts + 1, assistant |-> llm])
                         ELSE successes
         /\ wpc' = [wpc EXCEPT ![w] = IF r.out.kind = "raised" THEN "except" ELSE "callback"]
  /\ prompts' = prompts + 1
  /\ UNCHANGED <<main_write, is_busy, callbacks, last_return, rejected>>
  /\ UNCHANGED <<text_vars, ask_vars, call_vars, parser_vars, dispatch_vars, sheet_vars, panel_vars, rows_vars, settings_vars>>

\* worker: callback(result) inside the try block; an exception of the callback
\* is caught by the except clause
WorkerCallback(w) ==
  /\ wpc[w] = "callback"
  /\ callbacks' = [callbacks EXCEPT ![w] = @ + 1]
  /\ \E raises \in BOOLEAN :
       wpc' = [wpc EXCEPT ![w] = IF raises THEN "except" ELSE "finally"]
  /\ UNCHANGED <<is_busy, last_return, rejected, text_vars, ask_vars, call_vars, agent_vars, parser_vars, dispatch_vars, sheet_vars, panel_vars, rows_vars, settings_vars>>

\* worker: except Exception: callback({"error": str(e)})
WorkerExcept(w) ==
  /\ wpc[w] = "except"
  /\ callbacks' = [callbacks EXCEPT ![w] = @ + 1]
  /\ wpc' = [wpc EXCEPT ![w] = "finally"]
  /\ UNCHANGED <<is_busy, last_return, rejected, text_vars, ask_vars, call_vars, agent_vars, parser_vars, dispatch_vars, sheet_vars, panel_vars, rows_vars, settings_vars>>

\* worker: finally: self.is_busy = False; the thread ends
WorkerFinally(w) ==
  /\ wpc[w] = "finally"
  /\ is_busy' = FALSE
  /\ wpc' = [wpc EXCEPT ![w] = "done"]
  /\ UNCHANGED <<callbacks, last_return, rejected, text_vars, ask_vars, call_vars, agent_vars, parser_vars, dispatch_vars, sheet_vars, panel_vars, rows_vars, settings_vars>>

\* the worker threads started and not yet ended
RunningWorkers == {w \in Workers : wpc[w] \notin {"none", "done"}}

\* the panel's Clear History button, on the main thread:
\* self.ai_manager.agent.clear_history()
PanelClearHistory ==
  /\ conversation_history' = <<>>
  /\ successes' = <<>>
  /\ main_write' = IF RunningWorkers # {} THEN "in_flight" ELSE "idle"
  /\ UNCHANGED <<context_objects, prompts, pp_out, pp_response, pp_messages>>
  /\ UNCHANGED <<text_vars, ask_vars, call_vars, async_vars, parser_vars, dispatch_vars, sheet_vars, panel_vars, rows_vars, settings_vars>>

Worker(w) ==
  \/ WorkerSetBusy(w)
  \/ WorkerProcess(w)
  \/ WorkerCallback(w)
  \/ WorkerExcept(w)
  \/ WorkerFinally(w)

NextAsync == ProcessAsync \/ PanelClearHistory \/ \E w \in Workers : Worker(w)

SpecAsync == InitAsync /\ [][NextAsync]_vars

\* ----------------------------------------------------------- the agent
InitAgent == InitText

\* process_prompt(user_prompt, context), called directly
ProcessPrompt ==
  /\ prompts < MaxPrompts
  /\ \E ctx \in ContextArgs, llm \in LlmResults :
       LET r == process_prompt(conversation_history, context_objects, prompts + 1, ctx, llm) IN
         /\ conversation_history' = r.history
         /\ context_objects' = r.objects
         /\ pp_out' = r.out
         /\ pp_response' = r.response
         /\ pp_messages' = r.messages
         /\ successes' = IF r.out.kind = "returned" /\ ~r.out.error
                         THEN Append(successes, [user |-> prompts + 1, assistant |-> llm])
                         ELSE successes
  /\ prompts' = prompts + 1
  /\ UNCHANGED <<main_write, text_vars, ask_vars, call_vars, async_vars, parser_vars, dispatch_vars, sheet_vars, panel_vars, rows_vars, settings_vars>>

\* AIAgent.clear_history()
AgentClearHistory ==
  /\ conversation_history' = <<>>
  /\ successes' = <<>>
  /\ UNCHANGED <<context_objects, prompts, pp_out, main_write, pp_response, pp_messages>>
  /\ UNCHANGED <<text_vars, ask_vars, call_vars, async_vars, parser_vars, dispatch_vars, sheet_vars, panel_vars, rows_vars, settings_vars>>

NextAgent == ProcessPrompt \/ AgentClearHistory

SpecAgent == InitAgent /\ [][NextAgent]_vars

\* ---------------------------------------------------------- the parser
InitParser == InitText

\* extract_dimensions(prompt)
ExtractDimensions ==
  /\ pr_op = "none"
  /\ \E p \in Prompts :
       /\ pr_prompt' = p
       /\ pr_dims' = extract_dimensions(p)
  /\ pr_op' = "extract_dimensions"
  /\ UNCHANGED <<pr_result, pr_shape, text_vars, ask_vars, call_vars, async_vars, agent_vars, dispatch_vars, sheet_vars, panel_vars, rows_vars, settings_vars>>

\* parse_and_execute(prompt)
ParseAndExecute ==
  /\ pr_op = "none"
  /\ \E p \in Prompts :
       /\ pr_prompt' = p
       /\ pr_dims' = extract_dimensions(Strip(p, {" "}))
       /\ pr_shape' = detect_shape(Strip(p, {" "}))
       /\ pr_result' = parse_and_execute(p)
  /\ pr_op' = "parse_and_execute"
  /\ UNCHANGED <<text_vars, ask_vars, call_vars, async_vars, agent_vars, dispatch_vars, sheet_vars, panel_vars, rows_vars, settings_vars>>

\* detect_shape(prompt)
DetectShape ==
  /\ pr_op = "none"
  /\ \E p \in Prompts :
       /\ pr_prompt' = p
       /\ pr_shape' = detect_shape(p)
  /\ pr_op' = "detect_shape"
  /\ UNCHANGED <<pr_dims, pr_result, text_vars, ask_vars, call_vars, async_vars, agent_vars, dispatch_vars, sheet_vars, panel_vars, rows_vars, settings_vars>>

NextParser == ExtractDimensions \/ ParseAndExecute \/ DetectShape

SpecParser == InitParser /\ [][NextParser]_vars

\* ------------------------------------------------------ the dispatcher
InitDispatch == InitText

\* one pass of the loop of handle_ai_response: execute_ai_command(cmd)
ExecuteAiCommand ==
  /\ ex_count < MaxCommands
  /\ \E command \in Commands :
       LET r == execute_ai_command(doc_objects, command) IN
         /\ doc_objects' = r.objects
         /\ ex_last' = [command |-> command, outcome |-> r.outcome]
  /\ ex_count' = ex_count + 1
  /\ UNCHANGED <<text_vars, ask_vars, call_vars, async_vars, agent_vars, parser_vars, sheet_vars, panel_vars, rows_vars, settings_vars>>

NextDispatch == ExecuteAiCommand

SpecDispatch == InitDispatch /\ [][NextDispatch]_vars

\* ----------------------------------------------- the parametric manager
InitSheet == InitText

\* create_variable(name, value, unit, description)
CreateVariable ==
  /\ Len(sheet_names) < MaxSheetCalls
  /\ \E name \in RawNames :
       LET clean_name == create_variable(sheet_names, name) IN
         /\ sheet_names' = Append(sheet_names, clean_name)
         /\ pm_last' = [op |-> "create_variable", name |-> clean_name]
  /\ variable_counter' = variable_counter + 1
  /\ UNCHANGED <<text_vars, ask_vars, call_vars, async_vars, agent_vars, parser_vars, dispatch_vars, panel_vars, rows_vars, settings_vars>>

\* add_constraint(expression, description)
AddConstraint ==
  /\ Len(sheet_names) < MaxSheetCalls
  /\ sheet_names' = Append(sheet_names, constraint_name(variable_counter))
  /\ pm_last' = [op |-> "add_constraint", name |-> constraint_name(variable_counter)]
  /\ variable_counter' = variable_counter + 1
  /\ UNCHANGED <<text_vars, ask_vars, call_vars, async_vars, agent_vars, parser_vars, dispatch_vars, panel_vars, rows_vars, settings_vars>>

NextSheet == CreateVariable \/ AddConstraint

SpecSheet == InitSheet /\ [][NextSheet]_vars

\* ------------------------------------------------------------ NLPanel.on_run
InitPanel == InitText

\* the user types into the prompt box
EditPrompt ==
  /\ \E p \in Strings(PanelPromptAlphabet, MaxField) : pn_prompt' = p
  /\ UNCHANGED <<dryRun, pn_last, text_vars, ask_vars, call_vars, async_vars, agent_vars, parser_vars, dispatch_vars, sheet_vars, rows_vars, settings_vars>>

\* the user ticks or unticks the "Dry run" box
ToggleDryRun ==
  /\ dryRun' = ~dryRun
  /\ UNCHANGED <<pn_prompt, pn_last, text_vars, ask_vars, call_vars, async_vars, agent_vars, parser_vars, dispatch_vars, sheet_vars, rows_vars, settings_vars>>

\* the user presses "Generate & Run"
OnRun ==
  /\ \E reply \in PanelReplies : pn_last' = on_run(pn_prompt, dryRun, reply)
  /\ UNCHANGED <<pn_prompt, dryRun, text_vars, ask_vars, call_vars, async_vars, agent_vars, parser_vars, dispatch_vars, sheet_vars, rows_vars, settings_vars>>

NextPanel == EditPrompt \/ ToggleDryRun \/ OnRun

SpecPanel == InitPanel /\ [][NextPanel]_vars

\* ------------------------------------------- the rows of the parameter sheet
InitRows == InitText

\* ParametricObjectManager(document): the sheet is found or made, and the
\* counter is read from its used cells
NewManager(m) ==
  /\ mgr_counter[m] = 0
  /\ mgr_counter' = [mgr_counter EXCEPT ![m] = next_variable_counter(sheet_rows)]
  /\ UNCHANGED <<sheet_rows, hx_last, text_vars, ask_vars, call_vars, async_vars, agent_vars, parser_vars, dispatch_vars, sheet_vars, panel_vars, settings_vars>>

\* manager m: create_variable(name, value)
RowCreateVariable(m) ==
  /\ mgr_counter[m] \in Rows
  /\ \E name \in {<<"a">>}, value \in {1} :
       LET r == create_variable_row(sheet_rows, mgr_counter[m], name, value) IN
         /\ sheet_rows' = r.cells
         /\ mgr_counter' = [mgr_counter EXCEPT ![m] = r.counter]
  /\ UNCHANGED <<hx_last, text_vars, ask_vars, call_vars, async_vars, agent_vars, parser_vars, dispatch_vars, sheet_vars, panel_vars, settings_vars>>

\* manager m: add_constraint(expression)
RowAddConstraint(m) ==
  /\ mgr_counter[m] \in Rows
  /\ LET r == add_constraint_row(sheet_rows, mgr_counter[m], 3) IN
       /\ sheet_rows' = r.cells
       /\ mgr_counter' = [mgr_counter EXCEPT ![m] = r.counter]
  /\ UNCHANGED <<hx_last, text_vars, ask_vars, call_vars, async_vars, agent_vars, parser_vars, dispatch_vars, sheet_vars, panel_vars, settings_vars>>

\* manager m: create_parametric_hexagon("h", dimensions, position)
CreateHexagon(m) ==
  /\ mgr_counter[m] \in Rows
  /\ mgr_counter[m] + 4 \in Rows
  /\ \E width \in {20, 30}, height \in {10}, position \in HexPositions :
       LET r == create_parametric_hexagon(sheet_rows, mgr_counter[m], width, height, position) IN
         /\ sheet_rows' = r.cells
         /\ mgr_counter' = [mgr_counter EXCEPT ![m] = r.counter]
         /\ hx_last' = [op |-> "hexagon", width |-> width, height |-> height,
                        position |-> position, shape |-> r.shape]
  /\ UNCHANGED <<text_vars, ask_vars, call_vars, async_vars, agent_vars, parser_vars, dispatch_vars, sheet_vars, panel_vars, settings_vars>>

NextRows ==
  \E m \in Managers :
    NewManager(m) \/ RowCreateVariable(m) \/ RowAddConstraint(m) \/ CreateHexagon(m)

SpecRows == InitRows /\ [][NextRows]_vars

\* --------------------------------------------------------- AISettingsPanel
InitSettings == InitText

\* AISettingsPanel(): load_settings reads the file into the config, setup_ui
\* builds the widgets
OpenSettingsPanel ==
  /\ ~st_open
  /\ st_open' = TRUE
  /\ st_loaded' = st_file
  /\ st_ui' = setup_ui(st_file)
  /\ st_edited' = FALSE
  /\ st_saved' = FALSE
  /\ UNCHANGED <<st_file, text_vars, ask_vars, call_vars, async_vars, agent_vars, parser_vars, dispatch_vars, sheet_vars, panel_vars, rows_vars>>

\* the user picks another provider: currentTextChanged calls
\* on_provider_changed
ChangeProvider ==
  /\ st_open
  /\ \E p \in Providers \ {st_ui.provider} :
       st_ui' = on_provider_changed([st_ui EXCEPT !.provider = p], p)
  /\ st_edited' = TRUE
  /\ st_saved' = FALSE
  /\ UNCHANGED <<st_file, st_open, st_loaded, text_vars, ask_vars, call_vars, async_vars, agent_vars, parser_vars, dispatch_vars, sheet_vars, panel_vars, rows_vars>>

\* the user edits the model, the base URL, the API key (the field is
\* disabled for ollama) or the retries
EditSettingsField ==
  /\ st_open
  /\ \/ \E m \in ModelTexts \ {st_ui.model} : st_ui' = [st_ui EXCEPT !.model = m]
     \/ \E u \in BaseUrlTexts \ {st_ui.base_url} : st_ui' = [st_ui EXCEPT !.base_url = u]
     \/ /\ st_ui.provider # "ollama"
        /\ \E k \in ApiKeyTexts \ {st_ui.api_key} : st_ui' = [st_ui EXCEPT !.api_key = k]
     \/ \E n \in RetriesValues \ {st_ui.max_retries} : st_ui' = [st_ui EXCEPT !.max_retries = n]
  /\ st_edited' = TRUE
  /\ st_saved' = FALSE
  /\ UNCHANGED <<st_file, st_open, st_loaded, text_vars, ask_vars, call_vars, async_vars, agent_vars, parser_vars, dispatch_vars, sheet_vars, panel_vars, rows_vars>>

\* save_settings: update_config_from_ui copies the widgets into the config,
\* which is written to the file
SaveSettings ==
  /\ st_open
  /\ st_file' = st_ui
  /\ st_saved' = TRUE
  /\ UNCHANGED <<st_open, st_ui, st_loaded, st_edited, text_vars, ask_vars, call_vars, async_vars, agent_vars, parser_vars, dispatch_vars, sheet_vars, panel_vars, rows_vars>>

\* the dialog is closed
CloseSettingsPanel ==
  /\ st_open
  /\ st_open' = FALSE
  /\ UNCHANGED <<st_file, st_ui, st_loaded, st_edited, st_saved, text_vars, ask_vars, call_vars, async_vars, agent_vars, parser_vars, dispatch_vars, sheet_vars, panel_vars, rows_vars>>

NextSettings ==
  OpenSettingsPanel \/ ChangeProvider \/ EditSettingsField \/ SaveSettings \/ CloseSettingsPanel

SpecSettings == InitSettings /\ [][NextSettings]_vars

\* ================================================================= claims

\* --------------------------------------------------------------------- C1
InFlight == {w \in Workers : wpc[w] \notin {"none", "done"}}

\* C1: while an accepted request has not completed, process_async starts no
\* second worker: at most one worker thread is running at any time.
C1_AtMostOneWorker == Cardinality(InFlight) <= 1

\* --------------------------------------------------------------------- C2
AllTimeouts == \A i \in 1..Len(trace) : trace[i].kind = "Timeout"

\* C2: with max_retries = N >= 1 and a transport on which every attempt times
\* out, _call_llm makes exactly N attempts and then raises the error that
\* reports the timeout and advises a longer timeout or a faster model.
C2_TimeoutRetryAccounting ==
  (max_retries >= 1 /\ AllTimeouts) =>
    /\ call_pc # "returned"
    /\ call_pc = "loop" => attempt < max_retries
    /\ call_pc = "raised" =>
         /\ attempt = max_retries
         /\ Len(trace) = max_retries
         /\ call_error =
              "Request timed out after <timeout> seconds. Try increasing timeout in AI settings or using a faster model."

C2_Witness ==
  /\ max_retries = 2
  /\ call_pc = "raised"
  /\ Len(trace) = 2
  /\ AllTimeouts

\* --------------------------------------------------------------------- C3
\* C3 as stated: every input longer than 5000 characters as passed by the
\* caller raises the size error and never reaches exec.
C3_Original ==
  (t_op = "safe_run" /\ StrLen(t_arg) > MAX_CODE_LEN) =>
    (t_out.error = "too_long" /\ ~t_out.executed)

\* C3 amended: every input whose normalized text is longer than 5000
\* characters raises the size error and never reaches exec.
C3_NormalizedTooLong ==
  (t_op = "safe_run" /\ StrLen(t_out.s) > MAX_CODE_LEN) =>
    (t_out.error = "too_long" /\ ~t_out.executed)

C3_Witness ==
  /\ t_op = "safe_run"
  /\ StrLen(t_out.s) > MAX_CODE_LEN
  /\ t_out.error = "too_long"

\* --------------------------------------------------------------------- C4
\* the literal text import os occurs in s
ContainsImportOs(s) == \E i \in 1..Len(s) : s[i] = "import os"

\* import os occurs in s with no word character right before import
ImportOsAtWordBoundary(s) ==
  \E i \in 1..Len(s) :
    s[i] = "import os" /\ (i = 1 \/ s[i - 1] \notin {"x=1", "import os", "python", "json"})

\* C4 as stated: every code string that contains import os anywhere raises
\* the blocked-pattern error and never reaches exec.
C4_Original ==
  (t_op = "safe_run" /\ ContainsImportOs(t_arg)) =>
    (t_out.error = "blocked" /\ ~t_out.executed)

\* C4 amended: every code string whose normalized text is at most 5000
\* characters long and holds import os with no word character right before
\* import raises the blocked-pattern error, by the rule \bimport\b, and never
\* reaches exec.
C4_ImportOsBlocked ==
  (t_op = "safe_run" /\ StrLen(t_out.s) <= MAX_CODE_LEN /\ ImportOsAtWordBoundary(t_out.s)) =>
    (t_out.error = "blocked" /\ t_out.rule = 1 /\ ~t_out.executed)

C4_Witness ==
  /\ t_op = "safe_run"
  /\ ImportOsAtWordBoundary(t_out.s)
  /\ Len(t_out.s) >= 2
  /\ t_out.s[1] # "import os"
  /\ t_out.error = "blocked"

\* --------------------------------------------------------------------- C5
ClaimedContent == <<"FENCE", "json", "LF", "OBJ", "LF", "FENCE">>

\* C5: for message.content = fence, json, \n, {"code":"x=1"}, \n, fence,
\* ask_llm returns the value of the code field, x=1.
C5_FencedJsonYieldsCode ==
  (ask_done /\ ask_sc.stage = "content" /\ ask_sc.content = ClaimedContent) =>
    (ask_out.raised = "none" /\ ask_out.code = <<"x=1">>)

\* --------------------------------------------------------------------- C6
\* c.strip()
Trimmed(c) ==
  LET keep == {i \in 1..Len(c) : c[i] \notin {" ", "PAD", "LF", "CR"}} IN
    IF keep = {} THEN <<>>
    ELSE SubSeq(c, CHOOSE i \in keep : \A j \in keep : i <= j,
                   CHOOSE i \in keep : \A j \in keep : i >= j)

\* the trimmed payload holds no byte-order mark and no line break other than
\* \n, neither starts nor ends with a backtick, and does not end with a }
\* that no { precedes
PlainPayload(c) ==
  LET b == Trimmed(c) IN
    /\ \A i \in 1..Len(b) : b[i] \notin {"BOM", "CR"}
    /\ b # <<>> => (b[1] # "BT" /\ b[Len(b)] # "BT")
    /\ ~(b # <<>> /\ b[Len(b)] = "}" /\ \A i \in 1..Len(b) : b[i] # "{")

\* no line of c starts, after blanks, with import
NoImportLine(c) ==
  \A i \in 1..Len(c) :
    c[i] = "import os" =>
      \E j \in 1..(i - 1) :
        /\ c[j] \notin {" ", "PAD", "LF", "CR"}
        /\ \A k \in j..(i - 1) : c[k] \notin {"LF", "CR"}

\* C6 as stated: for every payload c, normalizing the fenced c, in the
\* executor and in the client, returns c with its surrounding whitespace
\* trimmed and nothing else changed.
C6_Original ==
  (t_op \in {"safe_run", "normalize_code"} /\ t_wrapped) => t_out.s = Trimmed(t_payload)

\* C6 amended: that holds for every payload whose trimmed text holds no
\* byte-order mark and no line break other than \n, neither starts nor ends
\* with a backtick and does not end with an unmatched }, and, in the client,
\* has no line that starts with import.
C6_FenceRoundTrip ==
  /\ (t_op = "safe_run" /\ t_wrapped /\ PlainPayload(t_payload)) =>
       t_out.s = Trimmed(t_payload)
  /\ (t_op = "normalize_code" /\ t_wrapped /\ PlainPayload(t_payload) /\ NoImportLine(t_payload)) =>
       t_out.s = Trimmed(t_payload)

C6_Witness ==
  /\ t_op = "safe_run"
  /\ t_wrapped
  /\ PlainPayload(t_payload)
  /\ t_payload = <<" ", "x=1", "LF">>
  /\ t_out.s = <<"x=1">>

\* --------------------------------------------------------------------- C7
\* t without its trailing } characters and the whitespace between and after
\* them
WithoutTrailingBraces(t) ==
  LET keep == {i \in 1..Len(t) : t[i] \notin {"}", " ", "PAD", "LF", "CR"}} IN
    IF keep = {} THEN <<>>
    ELSE SubSeq(t, 1, CHOOSE i \in keep : \A j \in keep : i >= j)

\* t without its trailing whitespace
WithoutTrailingBlanks(t) ==
  LET keep == {i \in 1..Len(t) : t[i] \notin {" ", "PAD", "LF", "CR"}} IN
    IF keep = {} THEN <<>>
    ELSE SubSeq(t, 1, CHOOSE i \in keep : \A j \in keep : i >= j)

Is404(o) == o.kind = "HTTPError" /\ o.status = 404

\* C8: an HTTP 404 on any attempt raises the model-not-found error at once:
\* it is the last attempt made and no sleep follows it.
C8_NotFoundFailsAtOnce ==
  \A i \in 1..Len(trace) :
    Is404(trace[i]) =>
      /\ i = Len(trace)
      /\ call_pc = "raised"
      /\ call_error = "Model not found. Check if model is installed: ollama pull <model>"
      /\ Len(sleeps) = i - 1

C8_Witness ==
  /\ Len(trace) = 2
  /\ max_retries > 2
  /\ Is404(trace[2])
  /\ call_pc = "raised"

\* --------------------------------------------------------------------- C9
\* attempt i (from 1) was the last one max_retries allows
FinalAttempt(i) == i = max_retries

\* C9 as stated: every 5xx status is retried after 5 s and, on the final
\* attempt, raises the resource-pressure error.
C9_Original ==
  \A i \in 1..Len(trace) :
    (trace[i].kind = "HTTPError" /\ trace[i].status \in 500..599) =>
      IF FinalAttempt(i)
      THEN call_pc = "raised" /\ call_error = MsgServerError
      ELSE sleeps[i] = 5

\* C9 amended: status 500 is retried after 5 s and, on the final attempt,
\* raises the resource-pressure error; every other 5xx status is handled like
\* any other HTTP status: retried after 2^attempt s, and HTTP <status> raised
\* on the final attempt.
C9_ServerError500 ==
  \A i \in 1..Len(trace) :
    /\ (trace[i].kind = "HTTPError" /\ trace[i].status = 500) =>
         IF FinalAttempt(i)
         THEN /\ call_pc = "raised"
              /\ call_error =
                   "Ollama server error (500) - likely memory/resource issue. Try a smaller model or restart Ollama."
         ELSE sleeps[i] = 5
    /\ (trace[i].kind = "HTTPError" /\ trace[i].status \in 501..599) =>
         IF FinalAttempt(i)
         THEN call_pc = "raised" /\ call_error = "HTTP <status_code>: <error>"
         ELSE sleeps[i] = 2 ^ (i - 1)

C9_Witness ==
  /\ Len(trace) = 3
  /\ max_retries = 3
  /\ \A i \in 1..3 : trace[i].kind = "HTTPError" /\ trace[i].status = 500
  /\ sleeps = <<5, 5>>
  /\ call_pc = "raised"

\* -------------------------------------------------------------------- C10
\* the error each kind of failure is classified as
ClassifiedError(o) ==
  CASE o.kind = "Timeout" ->
         "Request timed out after <timeout> seconds. Try increasing timeout in AI settings or using a faster model."
    [] o.kind = "ConnectionError" ->
         "Could not connect to Ollama. Make sure Ollama is running: ollama serve"
    [] o.kind = "RequestException" -> "LLM API call failed after <max_retries> attempts: <error>"
    [] o.kind = "HTTPError" /\ o.status = 500 ->
         "Ollama server error (500) - likely memory/resource issue. Try a smaller model or restart Ollama."
    [] o.kind = "HTTPError" /\ o.status = 404 ->
         "Model not found. Check if model is installed: ollama pull <model>"
    [] o.kind = "HTTPError" /\ o.status = 429 -> "Too many requests. Please wait and try again."
    [] o.kind = "HTTPError" /\ o.status = 0 -> "HTTP error: <error>"
    [] o.kind = "HTTPError" -> "HTTP <status_code>: <error>"
    [] OTHER -> ""

\* C10: for every sequence of outcomes _call_llm makes at most max_retries
\* attempts, stops at the first success and returns its content, and when it
\* raises after failed attempts the error is the one of the last attempt.
C10_LastErrorSurfaces ==
  /\ Len(trace) <= max_retries
  /\ attempt = Len(trace)
  /\ \A i \in 1..Len(trace) :
       trace[i].kind = "success" => (i = Len(trace) /\ call_pc = "returned" /\ call_result = i)
  /\ call_pc = "returned" => trace[Len(trace)].kind = "success"
  /\ (call_pc = "raised" /\ trace # <<>>) =>
       /\ call_error = ClassifiedError(trace[Len(trace)])
       /\ \A i \in 1..Len(trace) : trace[i].kind # "success"

C10_Witness ==
  /\ call_pc = "raised"
  /\ Len(trace) = 3
  /\ trace[1].kind = "Timeout"
  /\ trace[2].kind = "HTTPError" /\ trace[2].status = 429
  /\ trace[3].kind = "ConnectionError"
  /\ call_error = "Could not connect to Ollama. Make sure Ollama is running: ollama serve"

\* -------------------------------------------------------------------- C11
\* C11: for a non-empty prompt and a valid base URL, every failure of ask_llm
\* reaches the caller as an OllamaError, no other exception type does.
C11_OnlyOllamaError ==
  (ask_done /\ ask_sc.stage \notin {"empty_user_text", "bad_base_url"}) =>
    ask_out.raised \in {"none", "OllamaError"}

\* -------------------------------------------------------------------- C12
\* C12: process_prompt never raises; every exception while handling a prompt
\* gives the result {error, fallback: true}.
C12_NeverRaises == pp_out.kind # "raised"

\* -------------------------------------------------------------------- C13
\* the last n entries of s
LastEntries(s, n) == IF Len(s) <= n THEN s ELSE SubSeq(s, Len(s) - n + 1, Len(s))

\* C13: after any sequence of process_prompt and clear_history calls the
\* history holds at most 5 entries, which are the most recent successful
\* exchanges since the last clear, oldest first.
C13_HistoryIsLastFive ==
  /\ Len(conversation_history) <= 5
  /\ conversation_history = LastEntries(successes, 5)

C13_Witness ==
  /\ Len(successes) = 6
  /\ Len(conversation_history) = 5
  /\ \A i \in 1..5 : conversation_history[i].user = i + 2

\* -------------------------------------------------------------------- C14
\* C14: the main thread never writes the agent's conversation history while a
\* worker started by process_async is still running.
C14_NoMainWriteInFlight == main_write # "in_flight"

\* -------------------------------------------------------------------- C15
\* C15: for a prompt that names a known shape and holds no number,
\* extract_dimensions returns an empty mapping and parse_and_execute creates
\* the shape with its default dimensions.
C15_EmptyDimsUseDefaults ==
  (/\ pr_op = "parse_and_execute"
   /\ \E i \in 1..Len(pr_prompt) : pr_prompt[i] \in {"box", "cone"}
   /\ \A i \in 1..Len(pr_prompt) : pr_prompt[i] \notin {"8", "2"}) =>
    (DOMAIN pr_dims = {} /\ pr_result.created)

\* -------------------------------------------------------------------- C16
\* the pieces i..j of p are digits
AllDigits(p, i, j) == \A k \in i..j : p[k] \in {"8", "2"}

\* a compound number x number x number starts at piece j of p
CompoundStartsAt(p, j) ==
  \E a \in j..Len(p) :
    /\ AllDigits(p, j, a)
    /\ a + 1 <= Len(p) /\ p[a + 1] = "x"
    /\ \E b \in (a + 2)..Len(p) :
         /\ AllDigits(p, a + 2, b)
         /\ b + 2 <= Len(p) /\ p[b + 1] = "x" /\ p[b + 2] \in {"8", "2"}

\* the word that follows piece c of p, after any spaces
WordAfter(p, c) ==
  LET blanks == {u \in (c + 1)..(Len(p) + 1) : \A k \in (c + 1)..(u - 1) : p[k] = " "}
      u == CHOOSE v \in blanks : \A w \in blanks : v >= w
      letters == {e \in (u - 1)..Len(p) : \A k \in u..e : p[k] \notin {"8", "2", " "}}
  IN SubSeq(p, u, CHOOSE e \in letters : \A f \in letters : e >= f)

\* the factor of the unit table, in tenths of a millimetre; 1 mm for an
\* absent or unknown unit word
TableFactor(word) ==
  CASE word = <<"cm">> -> 100
    [] word = <<"dm">> -> 1000
    [] word = <<"m">> -> 10000
    [] OTHER -> 10

\* C16: for every prompt with no named dimension field whose first compound
\* match is A x B x C followed by a unit word, extract_dimensions returns
\* length = A*f, width = B*f and height = C*f, f being the factor of the unit
\* in the table mm 1, cm 10, dm 100, m 1000, and 1 for an absent or unknown
\* unit word.
C16_CompoundTimesUnit ==
  (pr_op \in {"extract_dimensions", "parse_and_execute"}
     /\ \A k \in 1..Len(pr_prompt) : pr_prompt[k] \notin NamedPatterns) =>
    \A i \in 1..Len(pr_prompt) :
      (CompoundStartsAt(pr_prompt, i) /\ \A j \in 1..(i - 1) : ~CompoundStartsAt(pr_prompt, j)) =>
        \A a \in i..Len(pr_prompt) :
          (AllDigits(pr_prompt, i, a) /\ a + 1 <= Len(pr_prompt) /\ pr_prompt[a + 1] = "x") =>
            \A b \in (a + 2)..Len(pr_prompt) :
              (AllDigits(pr_prompt, a + 2, b) /\ b + 1 <= Len(pr_prompt) /\ pr_prompt[b + 1] = "x") =>
                \A c \in (b + 2)..Len(pr_prompt) :
                  (AllDigits(pr_prompt, b + 2, c)
                     /\ (c = Len(pr_prompt) \/ pr_prompt[c + 1] \notin {"8", "2"})) =>
                    LET f == TableFactor(WordAfter(pr_prompt, c)) IN
                      pr_dims = [k \in {"length", "width", "height"} |->
                                   CASE k = "length" -> NumVal(SubSeq(pr_prompt, i, a)) * f
                                     [] k = "width" -> NumVal(SubSeq(pr_prompt, a + 2, b)) * f
                                     [] OTHER -> NumVal(SubSeq(pr_prompt, b + 2, c)) * f]

C16_Witness ==
  /\ pr_op = "extract_dimensions"
  /\ pr_prompt = <<"8", "x", "8", "x", "8", " ", "cm">>
  /\ pr_dims = [length |-> 800, width |-> 800, height |-> 800]

\* -------------------------------------------------------------------- C18
\* C18: execute_ai_command creates an object for every command of type
\* create whose shape is one of box, cylinder, sphere, cone, torus, wedge and
\* hexagon; none of them is dropped with None.
C18_EveryEnumShapeCreates ==
  (/\ ex_count > 0
   /\ ex_last.command.type = "create"
   /\ ex_last.command.shape \in {"box", "cylinder", "sphere", "cone", "torus", "wedge", "hexagon"}
   /\ ex_last.command.position # "partial") =>
    ex_last.outcome = "created"

\* -------------------------------------------------------------------- C17
\* a name of letters, digits and underscores that is not empty and does not
\* start with a digit
LegalIdentifier(name) ==
  /\ name # <<>>
  /\ \A i \in 1..Len(name) : name[i] # "-"
  /\ name[1] \notin {"0", "1", "2", "3", "4", "5", "6", "7", "8", "9"}

\* C17: after any sequence of create_variable and add_constraint calls the
\* names in column A are pairwise distinct, and every name create_variable
\* stored is a legal identifier.
C17_NamesUniqueAndLegal ==
  /\ \A i, j \in 1..Len(sheet_names) : i # j => sheet_names[i] # sheet_names[j]
  /\ pm_last.op = "create_variable" => LegalIdentifier(pm_last.name)

\* C19: a run of NLPanel.on_run with the "Dry run" box checked never calls
\* safe_run, and when it got code it only logs it; with an empty prompt
\* neither ask_llm nor safe_run is called.
C19_DryRunNeverExecutes ==
  /\ pn_last.dry =>
       /\ ~pn_last.ran
       /\ ~pn_last.executed
       /\ pn_last.log \in {<<>>, <<"No prompt.">>, <<"ERROR", "traceback">>,
                           <<"Generated code", "Dry run only (not executed).">>}
  /\ pn_last.no_prompt => ~pn_last.asked /\ ~pn_last.ran

C19_Witness ==
  /\ pn_last.dry
  /\ pn_last.asked
  /\ pn_last.code = <<"x=1">>
  /\ pn_last.log = <<"Generated code", "Dry run only (not executed).">>

\* -------------------------------------------------------------------- C20
\* the banned patterns that match s
MatchingRules(s) == {k \in 1..Len(BANNED_PATTERNS) : RxSearch(k, s)}

\* the check of safe_run that fails first on the normalized text s, in the
\* order non-empty, length, deny-list, syntax; "none" when all four pass
FirstFailingCheck(s) ==
  IF Strip(s, PyWhitespace) = <<>> THEN "empty"
  ELSE IF StrLen(s) > MAX_CODE_LEN THEN "too_long"
  ELSE IF MatchingRules(s) # {} THEN "blocked"
  ELSE IF ~SyntaxOK(s) THEN "syntax"
  ELSE "none"

\* C20: safe_run checks the normalized code in the order non-empty, length
\* <= 5000, deny-list patterns in list order, syntax parse; the first check
\* that fails is the error raised, a deny-list error names the first pattern
\* of the list that matches, and exec is reached only if all four pass.
C20_FirstFailingCheckDecides ==
  t_op = "safe_run" =>
    /\ t_out.s = normalize(t_arg)
    /\ t_out.error = FirstFailingCheck(t_out.s)
    /\ t_out.error = "blocked" =>
         /\ t_out.rule \in MatchingRules(t_out.s)
         /\ \A k \in MatchingRules(t_out.s) : t_out.rule <= k
    /\ t_out.executed <=> FirstFailingCheck(t_out.s) = "none"

C20_Witness ==
  /\ t_op = "safe_run"
  /\ {1, 4} \subseteq MatchingRules(t_out.s)
  /\ StrLen(t_out.s) <= MAX_CODE_LEN
  /\ ~SyntaxOK(t_out.s)
  /\ t_out.error = "blocked"
  /\ t_out.rule = 1

\* -------------------------------------------------------------------- C21
\* the value a field of the compound AxBxC gets from the compound alone
CompoundValue(p, k) ==
  (CASE k = "length" -> XyzMatch(p).x [] k = "width" -> XyzMatch(p).y [] OTHER -> XyzMatch(p).z)
    * UnitFactor(XyzMatch(p).unit)

\* the value of the named field k: its number times its unit factor
NamedValue(p, k) == NamedMatch(p, k).value * UnitFactor(NamedMatch(p, k).unit)

\* the position of the first piece a of p, 0 when p holds none
PositionOf(p, a) ==
  IF \E i \in 1..Len(p) : p[i] = a
  THEN CHOOSE i \in 1..Len(p) : p[i] = a /\ \A j \in 1..(i - 1) : p[j] # a
  ELSE 0

\* C21: when the prompt holds a compound AxBxC and a named field, the
\* mapping extract_dimensions returns has the named value for that field
\* and the compound values for the other compound fields, wherever the
\* named field stands.
C21_NamedFieldWins ==
  (pr_op = "extract_dimensions" /\ XyzMatch(pr_prompt).found) =>
    \A k \in {"length", "width", "height"} :
      /\ k \in DOMAIN pr_dims
      /\ pr_dims[k] = IF NamedMatch(pr_prompt, k).found
                      THEN NamedValue(pr_prompt, k)
                      ELSE CompoundValue(pr_prompt, k)

C21_Witness ==
  /\ pr_op = "extract_dimensions"
  /\ pr_prompt = <<"8", "x", "8", "x", "8", "cm", " ", "height", " ", "2">>
  /\ PositionOf(pr_prompt, "height") > PositionOf(pr_prompt, "x")
  /\ pr_dims = [length |-> 800, width |-> 800, height |-> 20]

\* -------------------------------------------------------------------- C22
\* the shapes one of whose keywords occurs in p
ShapesNamed(p) ==
  {ShapePatterns[k][1] : k \in {j \in 1..Len(ShapePatterns) :
                                  \E i \in 1..Len(p) : p[i] \in ShapePatterns[j][2]}}

\* C22: detect_shape returns the first of box, cylinder, sphere, cone one of
\* whose keywords occurs in the prompt, wherever the keywords stand, and
\* null exactly when no keyword occurs.
C22_FirstShapeInFixedOrder ==
  pr_op = "detect_shape" =>
    LET named == ShapesNamed(pr_prompt) IN
      pr_shape = (IF "box" \in named THEN "box"
                  ELSE IF "cylinder" \in named THEN "cylinder"
                  ELSE IF "sphere" \in named THEN "sphere"
                  ELSE IF "cone" \in named THEN "cone"
                  ELSE "None")

C22_Witness ==
  /\ pr_op = "detect_shape"
  /\ pr_prompt = <<"pipe", " ", "box">>
  /\ pr_shape = "box"

\* -------------------------------------------------------------------- C23
\* C23: an accepted request invokes its completion callback exactly once: no
\* more than once while its worker runs, and once when the worker has ended.
C23_CallbackExactlyOnce ==
  \A w \in Workers :
    /\ callbacks[w] <= 1
    /\ wpc[w] = "done" => callbacks[w] = 1

\* -------------------------------------------------------------------- C24
\* C24: once the completion callback of a request has been invoked, and no
\* other worker is running, is_busy is False, so that the next request is
\* accepted.
C24_AvailableOnCompletion ==
  \A w \in Workers :
    (callbacks[w] > 0 /\ RunningWorkers \subseteq {w}) => ~is_busy

\* -------------------------------------------------------------------- C25
\* C25: a process_prompt call that returns {error, fallback: true} leaves the
\* history as it was; the history changes only in a call whose LLM call and
\* parsing both succeeded, and then its newest entry holds that call's
\* prompt and the raw response of that call.
C25_FailedCallKeepsHistory ==
  [][prompts' = prompts + 1 =>
       /\ (pp_out'.kind = "returned" /\ pp_out'.error) =>
            conversation_history' = conversation_history
       /\ conversation_history' # conversation_history =>
            /\ pp_out'.kind = "returned" /\ ~pp_out'.error
            /\ pp_response' \in {"json_commands", "text"}
            /\ conversation_history' # <<>>
            /\ conversation_history'[Len(conversation_history')] =
                 [user |-> prompts', assistant |-> pp_response']]_vars

C25_Witness ==
  /\ pp_out.kind = "returned" /\ pp_out.error /\ pp_out.fallback
  /\ pp_response = "content_none"
  /\ Len(conversation_history) = 2
  /\ \A i \in 1..2 : conversation_history[i].user < prompts

\* -------------------------------------------------------------------- C26
\* C26: the message list _call_llm builds starts with the system message and
\* ends with the current user prompt; between them stand the last 2 entries
\* of the history (all of it when it is shorter), oldest first, each as its
\* user message followed by its assistant message.
C26_MessageListShape ==
  [][(prompts' = prompts + 1 /\ pp_messages' # <<>>) =>
       LET m == pp_messages'
           h == conversation_history
           n == IF Len(h) < 2 THEN Len(h) ELSE 2
       IN /\ Len(m) = 2 * n + 2
          /\ m[1] = [role |-> "system", id |-> 0, content |-> "system_prompt"]
          /\ m[Len(m)] = [role |-> "user", id |-> prompts', content |-> "prompt"]
          /\ \A j \in 1..n :
               LET e == h[Len(h) - n + j] IN
                 /\ m[2 * j] = [role |-> "user", id |-> e.user, content |-> "prompt"]
                 /\ m[2 * j + 1] = [role |-> "assistant", id |-> e.user, content |-> e.assistant]]_vars

C26_Witness ==
  /\ pp_out.kind = "returned" /\ ~pp_out.error
  /\ Len(conversation_history) = 4
  /\ Len(pp_messages) = 6
  /\ pp_messages[2].id = conversation_history[2].user
  /\ pp_messages[5] = [role |-> "assistant", id |-> conversation_history[3].user,
                       content |-> conversation_history[3].assistant]
  /\ pp_messages[6].id = conversation_history[4].user

\* -------------------------------------------------------------------- C27
\* C27: create_parametric_hexagon builds the shape from the width and the
\* height it was called with, the values of its h_width and h_height
\* variables, for every position.
C27_HexagonFromOwnDimensions ==
  hx_last.op = "hexagon" =>
    hx_last.shape = [width |-> hx_last.width, height |-> hx_last.height]

\* -------------------------------------------------------------------- C29
\* C29: no call of any manager writes a row that already holds a variable.
C29_NoRowOverwritten ==
  [][\A r \in Rows : sheet_rows[r] # EmptyRow => sheet_rows'[r] = sheet_rows[r]]_vars

\* -------------------------------------------------------------------- C28
\* C28: opening the settings panel on persisted settings S and pressing Save
\* Settings without editing a field writes back exactly S.
C28_SettingsRoundTrip ==
  (st_saved /\ ~st_edited) => st_file = st_loaded

\* -------------------------------------------------------------------- C30
\* C30: normalizing twice gives what normalizing once gives: the text
\* _normalize returns and the text _normalize_code returns are both left
\* unchanged by _normalize.
C30_NormalizationIdempotent ==
  t_op \in {"safe_run", "normalize_code"} => normalize(t_out.s) = t_out.s

====
